---------------------------- MODULE Spec2Model ----------------------------
(***************************************************************************)
(* A model of the KubeResourceAdvisor analysis pipeline:                   *)
(*   metric_analyzer/kubernetes_monitor.py   (KubernetesMonitor)           *)
(*   metric_analyzer/metrics_processor.py    (MetricsProcessor)            *)
(*   metric_analyzer/metrics_visualizer.py   (MetricsVisualizer)           *)
(*   recommender_system/resource_recommender.py                            *)
(*   performance_test/health_analyzer.py     (HealthAnalyzer)              *)
(*   data_fetch_module/MetricsCollector.py   (MetricsCollector)            *)
(*   run.py                                  (main)                        *)
(*                                                                         *)
(* Representation.  A Python str is a sequence of one-character strings,   *)
(* so that split, strip, replace, `in`, the regular expressions, int() and *)
(* float() are computed character by character.  A Python float is a       *)
(* fixed-point integer: CPU numbers count thousandths (1.0 is 1000),       *)
(* memory numbers count whole bytes, a duration in hours counts            *)
(* thousandths of a second (1 hour is 3600000).  The inputs are integers   *)
(* and halves, on which the IEEE-754 arithmetic of the code is exact, so   *)
(* the fixed-point results are the float results.                          *)
(*                                                                         *)
(* A value that the code computes once and reads several times is passed   *)
(* as the argument of a definition of the next step, so that it is also    *)
(* computed once here.                                                     *)
(***************************************************************************)
EXTENDS Integers, Sequences, FiniteSets, TLC

VARIABLES
    pc,                      \* position of the running call
    call,                    \* the entry point that was called
    health_data,             \* List[str]: the lines of the restarts file
    perf_data,               \* List[str]: the lines of the metrics file
    midx,                    \* process_metrics: index of the next line
    metrics,                 \* process_metrics: the list of PodMetrics
    hidx,                    \* _process_health_data: index of the next line
    problematic_services,    \* _process_health_data: the set being built
    pending,                 \* run_analysis: services not yet iterated
    service_metrics,         \* run_analysis: service -> its filtered samples
    service_recommendations, \* run_analysis: service -> recommendation dict
    pod_name,                \* _extract_service_name: the argument
    resolved,                \* _extract_service_name: the value returned
    metrics_df,              \* generate_recommendation: the resource column
    resource_type,           \* generate_recommendation: 'cpu' or 'memory'
    processed_df,            \* generate_recommendation: the normalized y column
    current_usage,           \* generate_recommendation: mean of the y column
    recommendation,          \* generate_recommendation: the dict returned
    argument,                \* a function called on its own: the str argument
    returned,                \* a function called on its own: its outcome
    duration_minutes,        \* MetricsCollector: the duration given, or None
    end_time,                \* MetricsCollector: seconds after start_time, or None
    now,                     \* the clock: seconds after start_time
    pods,                    \* the pods the cluster reports to the collector
    main,                    \* run.py main: the block control is in
    args,                    \* run.py main: the parsed --metrics-file, --restarts-file
    files                    \* the file system: path -> whether a file exists, its lines

pipelineVars == <<health_data, perf_data, midx, metrics, hidx,
                  problematic_services, pending, service_metrics,
                  service_recommendations>>
resolverVars == <<pod_name, resolved>>
recommenderVars == <<metrics_df, resource_type, processed_df, current_usage, recommendation>>
callVars == <<argument, returned>>
collectorVars == <<duration_minutes, end_time, now, pods>>
mainVars == <<main, args, files>>
vars == <<pc, call, pipelineVars, resolverVars, recommenderVars, callVars, collectorVars,
          mainVars>>

---------------------------------------------------------------------------
(* Characters and the str methods the code uses.                           *)

Lower == {"a","b","c","d","e","f","g","h","i","j","k","l","m","n","o","p","q","r","s","t","u","v","w","x","y","z"}
Upper == {"A","B","C","D","E","F","G","H","I","J","K","L","M","N","O","P","Q","R","S","T","U","V","W","X","Y","Z"}
Digit == {"0","1","2","3","4","5","6","7","8","9"}
Whitespace == {" ", "\t", "\n"}
DigitChars == <<"0","1","2","3","4","5","6","7","8","9">>

DigitValue(c) == (CHOOSE i \in 1..10 : DigitChars[i] = c) - 1
DigitChar(d) == DigitChars[d + 1]

Max(S) == CHOOSE x \in S : \A y \in S : y <= x
Min(S) == CHOOSE x \in S : \A y \in S : x <= y
Range(f) == {f[i] : i \in DOMAIN f}

\* The k-th smallest element of a set of integers.
Nth(S, k) == CHOOSE i \in S : Cardinality({j \in S : j < i}) = k - 1

AllIn(s, class) == \A i \in 1..Len(s) : s[i] \in class

\* sub in s
Contains(s, sub) ==
    \E i \in 1..(Len(s) - Len(sub) + 1) : SubSeq(s, i, i + Len(sub) - 1) = sub

\* s.endswith(p)
EndsWith(s, p) == Len(p) <= Len(s) /\ SubSeq(s, Len(s) - Len(p) + 1, Len(s)) = p

\* The positions of the characters of s that are not in a class.
Outside(s, class) == {i \in 1..Len(s) : s[i] \notin class}

LStripKept(s, kept) == IF kept = {} THEN <<>> ELSE SubSeq(s, Min(kept), Len(s))
StripKept(s, kept) == IF kept = {} THEN <<>> ELSE SubSeq(s, Min(kept), Max(kept))
RStripKept(s, kept) == IF kept = {} THEN <<>> ELSE SubSeq(s, 1, Max(kept))

\* s.lstrip()
LStrip(s) == LStripKept(s, Outside(s, Whitespace))

\* s.strip()
Strip(s) == StripKept(s, Outside(s, Whitespace))

\* s.rstrip(c): every trailing c is removed
RStripChar(s, c) == RStripKept(s, Outside(s, {c}))

\* The token of s that starts at position i.
TokenAt(s, i) ==
    SubSeq(s, i, Min({j \in i..Len(s) : j = Len(s) \/ s[j + 1] \in Whitespace}))

SplitAt(s, starts) == [k \in 1..Cardinality(starts) |-> TokenAt(s, Nth(starts, k))]

\* s.split(): the maximal runs of non-whitespace characters, in order
Split(s) ==
    SplitAt(s, {i \in 1..Len(s) : s[i] \notin Whitespace /\ (i = 1 \/ s[i - 1] \in Whitespace)})

SplitOnAt(s, seps) ==
    [k \in 1..(Cardinality(seps) + 1) |->
        SubSeq(s,
               IF k = 1 THEN 1 ELSE Nth(seps, k - 1) + 1,
               IF k = Cardinality(seps) + 1 THEN Len(s) ELSE Nth(seps, k) - 1)]

\* s.split(c) for a one-character separator: always at least one part
SplitOn(s, c) == SplitOnAt(s, {i \in 1..Len(s) : s[i] = c})

\* s.replace(old, ""): the occurrences of old, left to right, are removed
RECURSIVE Remove(_, _)
RemoveFirst(s, old, i) ==
    SubSeq(s, 1, i - 1) \o Remove(SubSeq(s, i + Len(old), Len(s)), old)

RemoveFound(s, old, found) == IF found = {} THEN s ELSE RemoveFirst(s, old, Min(found))

Remove(s, old) ==
    RemoveFound(s, old, {i \in 1..(Len(s) - Len(old) + 1) : SubSeq(s, i, i + Len(old) - 1) = old})

\* s[a:b] for 0 <= a <= b: a slice stops at the end of the sequence
Slice(s, a, b) == SubSeq(s, a + 1, Min({b, Len(s)}))

\* " ".join(parts)
RECURSIVE JoinSpace(_)
JoinSpace(parts) ==
    IF Len(parts) = 0 THEN <<>>
    ELSE IF Len(parts) = 1 THEN parts[1]
         ELSE parts[1] \o <<" ">> \o JoinSpace(Tail(parts))

RECURSIVE DigitsValueTo(_, _)
DigitsValueTo(s, n) == IF n = 0 THEN 0 ELSE 10 * DigitsValueTo(s, n - 1) + DigitValue(s[n])

\* The number a string of digits denotes.
DigitsValue(s) == DigitsValueTo(s, Len(s))

RECURSIVE NatToStr(_)
NatToStr(n) == IF n < 10 THEN <<DigitChar(n)>> ELSE NatToStr(n \div 10) \o <<DigitChar(n % 10)>>

\* str(n) of an int
IntToStr(n) == IF n < 0 THEN <<"-">> \o NatToStr(-n) ELSE NatToStr(n)

Signed(sign, magnitude) == IF sign = "-" THEN -magnitude ELSE magnitude

SignedInt(sign, body) ==
    IF body # <<>> /\ AllIn(body, Digit)
    THEN [ok |-> TRUE, val |-> Signed(sign, DigitsValue(body))]
    ELSE [ok |-> FALSE, val |-> 0]

ParseIntStripped(t) ==
    IF t # <<>> /\ t[1] \in {"+", "-"} THEN SignedInt(t[1], Tail(t)) ELSE SignedInt("+", t)

\* int(s): surrounding whitespace and one sign are accepted, then digits only.
\* [ok |-> FALSE] stands for ValueError.
ParseInt(s) == ParseIntStripped(Strip(s))

\* The first three decimals of a fraction, in thousandths.
FractionValue(f) ==
    DigitsValue(SubSeq(f \o <<"0","0","0">>, 1, 3))

FloatOfParts(sign, parts) ==
    IF /\ Len(parts) <= 2
       /\ \A i \in 1..Len(parts) : AllIn(parts[i], Digit)
       /\ \E i \in 1..Len(parts) : parts[i] # <<>>
    THEN [ok |-> TRUE,
          val |-> Signed(sign, 1000 * DigitsValue(parts[1])
                               + (IF Len(parts) = 2 THEN FractionValue(parts[2]) ELSE 0))]
    ELSE [ok |-> FALSE, val |-> 0]

ParseFloatStripped(t) ==
    IF t # <<>> /\ t[1] \in {"+", "-"}
    THEN FloatOfParts(t[1], SplitOn(Tail(t), "."))
    ELSE FloatOfParts("+", SplitOn(t, "."))

\* float(s), in thousandths: surrounding whitespace and one sign are accepted,
\* then digits with at most one point and at least one digit (the inputs hold
\* no exponent, inf or nan).  [ok |-> FALSE] stands for ValueError.
ParseFloat(s) == ParseFloatStripped(Strip(s))

---------------------------------------------------------------------------
(* KubernetesMonitor._extract_service_name:                                *)
(*   re.match(r'^([a-zA-Z-]+)-[a-f0-9]{8,10}-[a-z0-9]{5}', pod_name)       *)

HexMin == 8
HexMax == 10
SuffixLen == 5

GroupChars == Lower \cup Upper \cup {"-"}
HexChars == {"a","b","c","d","e","f"} \cup Digit
SuffixChars == Lower \cup Digit

LeadingRun(s, other) == IF other = {} THEN Len(s) ELSE Min(other) - 1

\* The length of the longest leading run of characters of a class.
RunLength(s, class) == LeadingRun(s, Outside(s, class))

\* -[a-f0-9]{n}-[a-z0-9]{5} matches s from position k + 1 on.
RestMatchesWith(s, k, n) ==
    /\ Len(s) >= k + 1 + n + 1 + SuffixLen
    /\ s[k + 1] = "-"
    /\ AllIn(SubSeq(s, k + 2, k + 1 + n), HexChars)
    /\ s[k + 2 + n] = "-"
    /\ AllIn(SubSeq(s, k + 3 + n, k + 2 + n + SuffixLen), SuffixChars)

RestMatches(s, k) == \E n \in HexMin..HexMax : RestMatchesWith(s, k, n)

\* The lengths the group can have in a match of the whole pattern.
GroupLengths(s, run) == {k \in 1..run : RestMatches(s, k)}

\* A lazy group, ([a-zA-Z-]+?), takes one character at a time.
ShortestGroup(lengths) == IF lengths = {} THEN 0 ELSE Min(lengths)

\* A greedy group gives back one character at a time until the rest of the
\* pattern matches: the first match found has the longest group.
LongestGroup(lengths) == IF lengths = {} THEN 0 ELSE Max(lengths)

\* The length of group(1) of the match, 0 for no match.
ReMatchGroup(s) == LongestGroup(GroupLengths(s, RunLength(s, GroupChars)))

\* match.group(1) if match else pod_name
GroupOrName(name, g) == IF g > 0 THEN SubSeq(name, 1, g) ELSE name

ExtractServiceName(name) == GroupOrName(name, ReMatchGroup(name))

---------------------------------------------------------------------------
(* Optional[str] values and the outcome of a call.                         *)

NoneValue == [isNone |-> TRUE, str |-> <<>>]
Some(s) == [isNone |-> FALSE, str |-> s]

\* A call returns a value or raises.
Returned(v) == [raised |-> FALSE, value |-> v]
Raised == [raised |-> TRUE, value |-> NoneValue]

\* except Exception: the error is logged and the function returns None
Caught(r) == IF r.raised THEN Returned(NoneValue) ELSE r

---------------------------------------------------------------------------
(* KubernetesMonitor._parse_duration: the age in hours, here in            *)
(* thousandths of a second.  float() of a part may raise ValueError.       *)

WithRest(number, rest) == [ok |-> number.ok, val |-> number.val, rest |-> rest]

\* if unit in duration: parts = duration.split(unit); float(parts[0]);
\*                      duration = parts[1]
TakeSplit(parts) == WithRest(ParseFloat(parts[1]), parts[2])

TakeUnit(duration, unit) ==
    IF Contains(duration, <<unit>>)
    THEN TakeSplit(SplitOn(duration, unit))
    ELSE [ok |-> TRUE, val |-> 0, rest |-> duration]

\* The sum with minutes and seconds both divided by 60.
HoursOfSixtieths(h, m, s) ==
    IF h.ok /\ m.ok /\ s.ok
    THEN [ok |-> TRUE, val |-> 3600 * h.val + 60 * m.val + 60 * s.val]
    ELSE [ok |-> FALSE, val |-> 0]

\* hours + minutes / 60 + seconds / 3600
HoursOf(h, m, s) ==
    IF h.ok /\ m.ok /\ s.ok
    THEN [ok |-> TRUE, val |-> 3600 * h.val + 60 * m.val + s.val]
    ELSE [ok |-> FALSE, val |-> 0]

AfterMinutes(h, m) == HoursOf(h, m, TakeUnit(m.rest, "s"))

AfterHours(h) == AfterMinutes(h, TakeUnit(h.rest, "m"))

ParseDuration(age) ==
    AfterHours(TakeUnit(Remove(Remove(Remove(age, <<"(">>), <<")">>), <<" ","a","g","o">>), "h"))

---------------------------------------------------------------------------
(* KubernetesMonitor._process_single_health_line                           *)

MinHealthParts == 7
RecencyHours == 2

NAME == <<"N","A","M","E">>
CrashLoopBackOff == <<"C","r","a","s","h","L","o","o","p","B","a","c","k","O","f","f">>

\* The gate with a strict comparison, hours_ago < 2.
WithinRecencyStrict(duration) == duration < RecencyHours * 3600 * 1000

\* hours_ago <= 2, the duration being in thousandths of a second
WithinRecency(duration) == duration <= RecencyHours * 3600 * 1000

\* The predicate with restart_count >= 0 in place of restart_count > 0.
IsUnstableFromZero(restart_count, status) ==
    restart_count >= 0 \/ status = CrashLoopBackOff

IsUnstable(restart_count, status) ==
    restart_count > 0 \/ status = CrashLoopBackOff

HealthDecision(service, status, restart_count, hours_ago) ==
    IF ~restart_count.ok \/ ~hours_ago.ok THEN Raised
    ELSE IF IsUnstable(restart_count.val, status) /\ WithinRecency(hours_ago.val)
         THEN Returned(Some(service))
         ELSE Returned(NoneValue)

\* name = parts[1]; status = parts[3]; restarts = parts[4];
\* age = " ".join(parts[5:7])
HealthFields(name, status, restarts, age) ==
    HealthDecision(ExtractServiceName(name), status,
                   ParseInt(Strip(SplitOn(restarts, "(")[1])),
                   ParseDuration(age))

\* The token test with 6 in place of 7.
HealthPartsSix(parts) ==
    IF Len(parts) < 6 THEN Returned(NoneValue)
    ELSE HealthFields(parts[2], parts[4], parts[5], JoinSpace(Slice(parts, 5, 7)))

HealthParts(parts) ==
    IF Len(parts) < MinHealthParts THEN Returned(NoneValue)
    ELSE HealthFields(parts[2], parts[4], parts[5], JoinSpace(Slice(parts, 5, 7)))

\* The body of the try block: what it returns, or that it raises.
HealthLineTry(line) == HealthParts(Split(Strip(line)))

\* The try block without its except clause.
HealthLineNoExcept(line) == HealthLineTry(line)

\* try ... except Exception: log the line, fall through to return None
HealthLineExcept(line) == Caught(HealthLineTry(line))

ProcessSingleHealthLine(line) ==
    IF Contains(line, NAME) \/ Strip(line) = <<>>
    THEN Returned(NoneValue)
    ELSE HealthLineExcept(line)

---------------------------------------------------------------------------
(* MetricsProcessor                                                        *)

TimeChars == Digit \cup {":"}

\* self.date: the analysis date the processor was constructed with
AnalysisDate == <<"2","0","2","6","-","1","1","-","0","2">>

TimestampRun(s, run) ==
    IF run >= 1 /\ Len(s) >= run + 2 /\ s[run + 2] = "]" THEN run + 2 ELSE 0

\* re.match(r'\[([\d:]+)\]', s): the length of the match, 0 for no match
TimestampMatchLength(s) ==
    IF s # <<>> /\ Head(s) = "[" THEN TimestampRun(s, RunLength(Tail(s), TimeChars)) ELSE 0

\* re.sub(r'\[[\d:]+\]\s*', '', s): every bracketed time and the whitespace
\* after it is removed, left to right
RECURSIVE SubTimestamps(_)
SubFirst(s, i, n) == SubSeq(s, 1, i - 1) \o SubTimestamps(LStrip(SubSeq(s, i + n, Len(s))))

SubAt(s, i) == SubFirst(s, i, TimestampMatchLength(SubSeq(s, i, Len(s))))

SubFound(s, found) == IF found = {} THEN s ELSE SubAt(s, Min(found))

SubTimestamps(s) ==
    SubFound(s, {i \in 1..Len(s) : TimestampMatchLength(SubSeq(s, i, Len(s))) > 0})

Datetime(date, seconds) == [date |-> date, seconds |-> seconds]

DatetimeOf(date, hh, mm, ss) ==
    IF hh < 24 /\ mm < 60 /\ ss < 60
    THEN [ok |-> TRUE, val |-> Datetime(date, 3600 * hh + 60 * mm + ss)]
    ELSE [ok |-> FALSE, val |-> Datetime(date, 0)]

DatetimeOfFields(date, f) ==
    IF /\ Len(f) \in {2, 3}
       /\ \A i \in 1..Len(f) : Len(f[i]) \in {1, 2} /\ AllIn(f[i], Digit)
    THEN DatetimeOf(date, DigitsValue(f[1]), DigitsValue(f[2]),
                    IF Len(f) = 3 THEN DigitsValue(f[3]) ELSE 0)
    ELSE [ok |-> FALSE, val |-> Datetime(date, 0)]

\* pd.to_datetime(f"{self.date} {time_str}") for the time strings of the
\* inputs: H:M:S or H:M with fields in range is a time of day of the analysis
\* date, anything else raises ValueError.
ToDatetime(date, time_str) == DatetimeOfFields(date, SplitOn(time_str, ":"))

PodMetrics(name, cpu_, memory_, timestamp) ==
    [name |-> name, cpu |-> cpu_, memory |-> memory_, timestamp |-> timestamp]

NoMetric == [isNone |-> TRUE, metric |-> PodMetrics(<<>>, <<>>, <<>>, Datetime(<<>>, 0))]
SomeMetric(m) == [isNone |-> FALSE, metric |-> m]

\* The sample with the first field alone as its name.
MetricOfPartsFirstField(parts, timestamp) ==
    IF Len(parts) >= 3
    THEN SomeMetric(PodMetrics(parts[1], parts[Len(parts) - 1], parts[Len(parts)], timestamp))
    ELSE NoMetric

MetricOfParts(parts, timestamp) ==
    IF Len(parts) >= 3
    THEN SomeMetric(PodMetrics(JoinSpace(SubSeq(parts, 1, Len(parts) - 2)),
                               parts[Len(parts) - 1], parts[Len(parts)], timestamp))
    ELSE NoMetric

\* MetricsProcessor._parse_metric_line
ParseMetricLine(line, timestamp) == MetricOfParts(Split(line), timestamp)

MetricAfterTimestamp(current_timestamp, rest) ==
    IF ~current_timestamp.ok THEN [raised |-> TRUE, value |-> NoMetric]
    ELSE IF ~Contains(rest, NAME) /\ Strip(rest) # <<>>
         THEN [raised |-> FALSE, value |-> ParseMetricLine(rest, current_timestamp.val)]
         ELSE [raised |-> FALSE, value |-> NoMetric]

\* The body of the try block of process_metrics for a line whose timestamp
\* matched: [raised, value], the value being the metric to append or none.
MetricLineTry(date, line) ==
    MetricAfterTimestamp(ToDatetime(date, SubSeq(line, 2, TimestampMatchLength(line) - 1)),
                         SubTimestamps(line))

MetricCaught(r) == IF r.raised THEN [raised |-> FALSE, value |-> NoMetric] ELSE r

\* except ValueError / except Exception: log, go on with the next line
MetricLineExcept(date, line) == MetricCaught(MetricLineTry(date, line))

MatchedLine(date, line) ==
    IF TimestampMatchLength(line) = 0
    THEN [raised |-> FALSE, value |-> NoMetric]
    ELSE MetricLineExcept(date, line)

\* One iteration of the loop of process_metrics.
ProcessMetricLine(date, raw) == MatchedLine(date, Strip(raw))

---------------------------------------------------------------------------
(* ResourceRecommenderProphet.  CPU numbers are in thousandths; memory     *)
(* numbers are whole bytes (the memory inputs denote whole bytes below     *)
(* 2^31).                                                                  *)

Mi == <<"M","i">>
cpu == "cpu"
memory == "memory"

\* except (ValueError, TypeError): log a warning, return 0.0
FloatOrZero(f) == IF f.ok THEN f.val ELSE 0

\* _parse_kubernetes_cpu: float(value.rstrip('m')) if value.endswith('m'),
\* float(value) otherwise; the number is not scaled in either branch.
ParseKubernetesCpu(value) ==
    FloatOrZero(ParseFloat(IF EndsWith(value, <<"m">>) THEN RStripChar(value, "m") ELSE value))

\* self.memory_units.get(unit, 1)
MemoryUnits(unit) ==
    CASE unit = <<"K","i">> -> 1024
      [] unit = <<"M","i">> -> 1024 * 1024
      [] unit = <<"G","i">> -> 1024 * 1024 * 1024
      [] unit = <<"T","i">> -> 1024 * 1024 * 1024 * 1024
      [] OTHER -> 1

\* number * multiplier, the number being in thousandths
MemoryBytes(n, mult) == (n \div 1000) * mult + ((n % 1000) * mult) \div 1000

\* group(1) is \d+\.?\d* : digits, then at most one point, then digits
MemoryNumber(number, unit, parts) ==
    IF /\ Len(parts) <= 2
       /\ parts[1] # <<>>
       /\ \A i \in 1..Len(parts) : AllIn(parts[i], Digit)
    THEN MemoryBytes(ParseFloat(number).val, MemoryUnits(unit))
    ELSE 0

MemoryGroups(number, unit) == MemoryNumber(number, unit, SplitOn(number, "."))

\* group(2) is ([KMGT]i)? at the end of the string
MemoryMatch(v) ==
    IF Len(v) >= 2 /\ v[Len(v)] = "i" /\ v[Len(v) - 1] \in {"K","M","G","T"}
    THEN MemoryGroups(SubSeq(v, 1, Len(v) - 2), SubSeq(v, Len(v) - 1, Len(v)))
    ELSE MemoryGroups(v, <<>>)

\* _parse_kubernetes_memory: re.match(r'^(\d+\.?\d*)([KMGT]i)?$', value), the
\* number times the multiplier in bytes, 0.0 for no match.  $ also matches
\* before a final newline.
ParseKubernetesMemory(value) ==
    MemoryMatch(IF value # <<>> /\ value[Len(value)] = "\n"
                THEN SubSeq(value, 1, Len(value) - 1) ELSE value)

\* _preprocess_metrics: the column of the resource type, normalized
PreprocessMetrics(column, resource_type_) ==
    [i \in 1..Len(column) |->
        IF resource_type_ = cpu THEN ParseKubernetesCpu(column[i])
        ELSE ParseKubernetesMemory(column[i])]

RECURSIVE SumTo(_, _)
SumTo(seq, n) == IF n = 0 THEN 0 ELSE SumTo(seq, n - 1) + seq[n]

Sum(seq) == SumTo(seq, Len(seq))

\* processed_df['y'].mean()
Mean(seq) == Sum(seq) \div Len(seq)

Max0(x) == IF x > 0 THEN x ELSE 0

FormatCpu(cpu_cores) ==
    [raw_value |-> cpu_cores, formatted |-> IntToStr(cpu_cores) \o <<"m">>, unit |-> "millicores"]

\* memory_mi is kept as a count of 1/(1024 * 1024) Mi, which is the number of
\* bytes; int(memory_mi) is the whole Mi in it.
FormatMemory(memory_mi) ==
    [raw_value |-> memory_mi,
     formatted |-> IntToStr(memory_mi \div (1024 * 1024)) \o Mi,
     unit |-> "Mi"]

\* _format_recommendation.  cpu: int(max(0, value) * 1000) of a number in
\* thousandths is the number of thousandths.  memory: int(max(0, value /
\* (1024 * 1024))) of a number of bytes.
FormatRecommendation(value, resource_type_) ==
    IF resource_type_ = cpu THEN FormatCpu(Max0(value)) ELSE FormatMemory(Max0(value))

\* The library's fit and predict: either an exception or the forecast, of
\* which the code reads the column yhat_upper and the mean of the trend.
Fit(raises, yhat_upper, trend) ==
    [raises |-> raises, yhat_upper |-> yhat_upper, trend |-> trend]

\* forecast['yhat_upper'].min() in place of the maximum.
SeqMin(seq) == Min(Range(seq))

\* forecast['yhat_upper'].max()
SeqMax(seq) == Max(Range(seq))

\* peak_forecast = max(0, forecast['yhat_upper'].max());
\* recommendation = peak_forecast * 1.2, the buffer 1.2 being 12 / 10
Buffered(fit) == (Max0(SeqMax(fit.yhat_upper)) * 12) \div 10

\* The dict generate_recommendation returns.
RecommendationDict(usage, resource_type_, fit) ==
    [current_usage |-> FormatRecommendation(usage, resource_type_),
     recommendation |-> FormatRecommendation(Buffered(fit), resource_type_),
     forecast |-> fit.yhat_upper,
     factors |-> [trend |-> fit.trend,
                  daily_pattern |-> FALSE,
                  weekly_pattern |-> FALSE,
                  buffer |-> 1200]]

\* generate_recommendation after the mean: an exception of the fit is logged
\* and raised again.
RecommendationOf(usage, resource_type_, fit) ==
    IF fit.raises THEN [raised |-> TRUE, value |-> <<>>]
    ELSE [raised |-> FALSE, value |-> RecommendationDict(usage, resource_type_, fit)]

GenerateRecommendation(column, resource_type_, fit) ==
    RecommendationOf(Mean(PreprocessMetrics(column, resource_type_)), resource_type_, fit)

---------------------------------------------------------------------------
(* MetricsVisualizer.visualize_metrics and create_resource_analysis convert *)
(* the columns with .str.replace('m', '').astype(float) and                *)
(* .str.replace('Mi', '').astype(float); a value that float() rejects makes *)
(* them raise ValueError, which run_analysis does not catch.               *)

VisualizerRaises(metrics_list) ==
    \E i \in 1..Len(metrics_list) :
        \/ ~ParseFloat(Remove(metrics_list[i].cpu, <<"m">>)).ok
        \/ ~ParseFloat(Remove(metrics_list[i].memory, Mi)).ok

---------------------------------------------------------------------------
(* KubernetesMonitor.analyze_resource_usage and the grouping of            *)
(* run_analysis                                                            *)

EmptyDict == <<>>

\* df[resource_type]
Column(metrics_list, resource_type_) ==
    [i \in 1..Len(metrics_list) |->
        IF resource_type_ = cpu THEN metrics_list[i].cpu ELSE metrics_list[i].memory]

\* The dict built when both recommendations were generated.
Recommendations(service_name, cpu_rec, memory_rec) ==
    [service |-> service_name,
     metrics |-> [cpu |-> [recommendation |-> cpu_rec.recommendation.formatted,
                           forecast |-> cpu_rec.forecast,
                           factors |-> cpu_rec.factors],
                  memory |-> [recommendation |-> memory_rec.recommendation.formatted,
                              forecast |-> memory_rec.forecast,
                              factors |-> memory_rec.factors]]]

\* except Exception: log the error, return {}
RecommendationsOrEmpty(service_name, cpu_rec, memory_rec) ==
    IF cpu_rec.raised \/ memory_rec.raised THEN EmptyDict
    ELSE Recommendations(service_name, cpu_rec.value, memory_rec.value)

\* analyze_resource_usage: {} for an empty frame and for any exception.
AnalyzeResourceUsage(metrics_list, service_name, cpu_fit, memory_fit) ==
    IF metrics_list = <<>> THEN EmptyDict
    ELSE RecommendationsOrEmpty(service_name,
             GenerateRecommendation(Column(metrics_list, cpu), cpu, cpu_fit),
             GenerateRecommendation(Column(metrics_list, memory), memory, memory_fit))

\* service in self._extract_service_name(m.name): a substring test
SampleOfService(service, m) == Contains(ExtractServiceName(m.name), service)

\* [m for m in metrics if service in self._extract_service_name(m.name)]
ServiceMetrics(all_metrics, service) ==
    LET Test(m) == SampleOfService(service, m) IN SelectSeq(all_metrics, Test)

\* The loop body entered without the test of the list.
HasSamplesAlways(metrics_list) == TRUE

\* if service_metrics:
HasSamples(metrics_list) == metrics_list # <<>>

---------------------------------------------------------------------------
(* ResourceParser.  parse_cpu gives millicores, here in thousandths of a   *)
(* millicore; _parse_kubernetes_memory gives Mi, here in thousandths of a  *)
(* Mi.  __init__ sets memory_units and cpu_units and no logger, so the     *)
(* self.logger.warning(...) of an except clause raises AttributeError.     *)

\* try: return float(...) * scale   except (ValueError, TypeError): the
\* handler raises before its `return 0.0`
FloatOrAttributeError(f, scale) == IF f.ok THEN Returned(f.val * scale) ELSE Raised

\* ResourceParser.parse_cpu
ParseCpu(value) ==
    IF EndsWith(value, <<"m">>)
    THEN FloatOrAttributeError(ParseFloat(RStripChar(value, "m")), 1)
    ELSE FloatOrAttributeError(ParseFloat(value), 1000)

\* number * self.memory_units.get(unit, 1) of ResourceParser: Ki is 1/1024
ToMi(n, unit) ==
    CASE unit = <<"K","i">> -> n \div 1024
      [] unit = <<"M","i">> -> n
      [] unit = <<"G","i">> -> n * 1024
      [] unit = <<"T","i">> -> n * 1024 * 1024
      [] OTHER -> n

ResourceParserMemoryNumber(number, unit, parts) ==
    IF /\ Len(parts) <= 2
       /\ parts[1] # <<>>
       /\ \A i \in 1..Len(parts) : AllIn(parts[i], Digit)
    THEN ToMi(ParseFloat(number).val, unit)
    ELSE 0

ResourceParserMemoryMatch(v) ==
    IF Len(v) >= 2 /\ v[Len(v)] = "i" /\ v[Len(v) - 1] \in {"K","M","G","T"}
    THEN ResourceParserMemoryNumber(SubSeq(v, 1, Len(v) - 2), SubSeq(v, Len(v) - 1, Len(v)),
                                    SplitOn(SubSeq(v, 1, Len(v) - 2), "."))
    ELSE ResourceParserMemoryNumber(v, <<>>, SplitOn(v, "."))

\* ResourceParser._parse_kubernetes_memory: the same regular expression as in
\* ResourceRecommenderProphet; float(match.group(1)) cannot fail, so the
\* except clause is never entered.
ResourceParserParseKubernetesMemory(value) ==
    ResourceParserMemoryMatch(IF value # <<>> /\ value[Len(value)] = "\n"
                              THEN SubSeq(value, 1, Len(value) - 1) ELSE value)

---------------------------------------------------------------------------
(* MetricsCollector.  Times are whole seconds; now counts the seconds      *)
(* since start_time, which is 10:00:00 of the analysis date.               *)

PollSeconds == 60

\* `if duration_minutes`: None and 0 are both false
IsSet(minutes) == ~minutes.isNone /\ minutes.minutes # 0

\* __init__: self.start_time + timedelta(minutes=duration_minutes)
\*           if duration_minutes else None
EndTimeOf(minutes) ==
    IF IsSet(minutes) THEN [isNone |-> FALSE, seconds |-> 60 * minutes.minutes]
    ELSE [isNone |-> TRUE, seconds |-> 0]

\* is_collection_complete
IsCollectionComplete(minutes, end, clock) ==
    IF ~IsSet(minutes) THEN FALSE ELSE clock >= end.seconds

TwoDigits(n) == <<DigitChar(n \div 10), DigitChar(n % 10)>>

\* datetime.now().strftime("%H:%M:%S")
Strftime(seconds) ==
    TwoDigits(seconds \div 3600) \o <<":">> \o TwoDigits((seconds % 3600) \div 60)
        \o <<":">> \o TwoDigits(seconds % 60)

Bracketed(timestamp) == <<"[">> \o timestamp \o <<"]">>

\* f"[{timestamp}] {name} {cpu} {memory}" and the newline written after it
MetricsLine(timestamp, pod) ==
    Bracketed(timestamp) \o <<" ">> \o pod.name \o <<" ">> \o pod.cpu \o <<" ">> \o pod.memory
        \o <<"\n">>

\* f"[{timestamp}] {pod.metadata.name} {pod.status.phase} {restart_count}"
HealthLine(timestamp, pod) ==
    Bracketed(timestamp) \o <<" ">> \o pod.name \o <<" ">> \o pod.phase \o <<" ">>
        \o IntToStr(pod.restart_count) \o <<"\n">>

\* The lines one iteration of the loop appends to a file, a line for each pod
MetricsLines(timestamp, reported) ==
    [i \in 1..Len(reported) |-> MetricsLine(timestamp, reported[i])]

HealthLinesWritten(timestamp, reported) ==
    [i \in 1..Len(reported) |-> HealthLine(timestamp, reported[i])]

---------------------------------------------------------------------------
(* HealthAnalyzer.analyze_pods: the health evaluation without the recency  *)
(* gate.  It has no try block, so the ValueError of int() leaves it.       *)

\* \w and the hyphen
WordChars == Lower \cup Upper \cup Digit \cup {"_", "-"}

\* The lengths group(1) can have in a match of ([\w-]+)-[a-f0-9]
AnalyzerGroupLengths(s, run) ==
    {k \in 1..run : Len(s) >= k + 2 /\ s[k + 1] = "-" /\ s[k + 2] \in HexChars}

\* re.match(r'([\w-]+)-[a-f0-9]', name): the length of group(1), 0 for no
\* match; the group is greedy
AnalyzerMatchGroup(name) ==
    LongestGroup(AnalyzerGroupLengths(name, RunLength(name, WordChars)))

\* if service_name and (int(restarts.split()[0]) > 0 or status == ...)
AnalyzerDecision(name, status, restart_count, g) ==
    IF g = 0 THEN Returned(NoneValue)
    ELSE IF ~restart_count.ok THEN Raised
    ELSE IF restart_count.val > 0 \/ status = CrashLoopBackOff
         THEN Returned(Some(SubSeq(name, 1, g)))
         ELSE Returned(NoneValue)

AnalyzerParts(parts) ==
    IF Len(parts) >= 6
    THEN AnalyzerDecision(parts[2], parts[4], ParseInt(parts[5]), AnalyzerMatchGroup(parts[2]))
    ELSE Returned(NoneValue)

\* The body of `for line in lines`
AnalyzerLine(line) ==
    IF ~Contains(line, NAME) /\ Strip(line) # <<>>
    THEN AnalyzerParts(Split(line))
    ELSE Returned(NoneValue)

RECURSIVE AnalyzePodsFrom(_, _)
AnalyzePodsAfter(r, rest, problematic) ==
    IF r.raised THEN Raised
    ELSE AnalyzePodsFrom(rest, IF r.value.isNone THEN problematic
                               ELSE problematic \cup {r.value.str})

\* analyze_pods: the set returned, or the exception of the first line that
\* raises
AnalyzePodsFrom(lines, problematic) ==
    IF lines = <<>> THEN Returned(problematic)
    ELSE AnalyzePodsAfter(AnalyzerLine(Head(lines)), Tail(lines), problematic)

---------------------------------------------------------------------------
(* run.py main and the files it works on.  A file is [exists, lines]; the  *)
(* file operations themselves succeed.                                     *)

\* with open(path, 'a') as f: f.write(...) for each line; the file is
\* created when it does not exist
AppendTo(fs, path, written) ==
    [fs EXCEPT ![path] = [exists |-> TRUE, lines |-> @.lines \o written]]

\* DataReader.read_performance_data / read_health_data: f.readlines(), and
\* [] when the file is not found
ReadLines(fs, path) == IF fs[path].exists THEN fs[path].lines ELSE <<>>

\* if os.path.exists(file): os.remove(file)
RemoveIfExists(fs, path) ==
    IF fs[path].exists THEN [fs EXCEPT ![path] = [exists |-> FALSE, lines |-> <<>>]] ELSE fs

\* The cleanup with the metrics file alone.
CleanupMetricsFileOnly(fs, parsed) == RemoveIfExists(fs, parsed.metrics_file)

\* finally: for file in [args.metrics_file, args.restarts_file]: ...
Cleanup(fs, parsed) ==
    RemoveIfExists(RemoveIfExists(fs, parsed.metrics_file), parsed.restarts_file)

\* The loop printing the recommendations: rec['metrics'] is a KeyError for
\* the {} analyze_resource_usage returns after an exception.
PrintRaises(recommendations) ==
    \E service \in DOMAIN recommendations : DOMAIN recommendations[service] = {}

---------------------------------------------------------------------------
(* The inputs: pod names, tokens and lines as the files hold them.         *)

PodApi == <<"a","p","i","-","7","d","9","f","8","c","6","b","5","-","x","k","2","p","9">>
PodCheckout == <<"c","h","e","c","k","o","u","t","-","7","d","9","f","8","c","6","b","5","-","x","k","2","p","9">>
PodJob == <<"s","t","a","n","d","a","l","o","n","e","-","j","o","b">>
ServiceApi == <<"a","p","i">>
ServiceGateway == <<"a","p","i","-","g","a","t","e","w","a","y">>
ServiceCheckout == <<"c","h","e","c","k","o","u","t">>

\* A line of a file read with readlines(): the tokens and the line break.
Line(tokens) == JoinSpace(tokens) \o <<"\n">>

HealthRestarted ==
    Line(<<<<"d","e","f","a","u","l","t">>,
           <<"a","p","i","-","7","d","9","f","8","c","6","b","5","-","x","k","2","p","9">>,
           <<"1","/","1">>,
           <<"R","u","n","n","i","n","g">>,
           <<"3">>,
           <<"(","4","5","m">>,
           <<"a","g","o",")">>,
           <<"2","d">>>>)
HealthCrashLoop ==
    Line(<<<<"d","e","f","a","u","l","t">>,
           <<"a","p","i","-","g","a","t","e","w","a","y","-","5","f","6","d","7","c","8","b","9","a","-","a","b","c","d","e">>,
           <<"0","/","1">>,
           <<"C","r","a","s","h","L","o","o","p","B","a","c","k","O","f","f">>,
           <<"0">>,
           <<"(","2","h">>,
           <<"a","g","o",")">>>>)
HealthHealthy ==
    Line(<<<<"d","e","f","a","u","l","t">>,
           <<"c","h","e","c","k","o","u","t","-","7","d","9","f","8","c","6","b","5","-","x","k","2","p","9">>,
           <<"1","/","1">>,
           <<"R","u","n","n","i","n","g">>,
           <<"0">>,
           <<"1","8","h">>,
           <<"a","g","o">>>>)
HealthHealthyRecent ==
    Line(<<<<"d","e","f","a","u","l","t">>,
           <<"c","h","e","c","k","o","u","t","-","7","d","9","f","8","c","6","b","5","-","x","k","2","p","9">>,
           <<"1","/","1">>,
           <<"R","u","n","n","i","n","g">>,
           <<"0">>,
           <<"3","0","m">>,
           <<"a","g","o">>>>)
HealthOldRestart ==
    Line(<<<<"d","e","f","a","u","l","t">>,
           <<"c","h","e","c","k","o","u","t","-","7","d","9","f","8","c","6","b","5","-","x","k","2","p","9">>,
           <<"1","/","1">>,
           <<"R","u","n","n","i","n","g">>,
           <<"2">>,
           <<"(","2","h","1","5","m">>,
           <<"a","g","o",")">>,
           <<"3","d">>>>)
HealthDaysOld ==
    Line(<<<<"d","e","f","a","u","l","t">>,
           <<"a","p","i","-","7","d","9","f","8","c","6","b","5","-","x","k","2","p","9">>,
           <<"1","/","1">>,
           <<"R","u","n","n","i","n","g">>,
           <<"3">>,
           <<"(","3","d">>,
           <<"a","g","o",")">>,
           <<"5","d">>>>)
HealthSixParts ==
    Line(<<<<"d","e","f","a","u","l","t">>,
           <<"s","t","a","n","d","a","l","o","n","e","-","j","o","b">>,
           <<"1","/","1">>,
           <<"R","u","n","n","i","n","g">>,
           <<"3">>,
           <<"4","5","m">>>>)
HealthSevenParts ==
    Line(<<<<"d","e","f","a","u","l","t">>,
           <<"c","h","e","c","k","o","u","t","-","7","d","9","f","8","c","6","b","5","-","x","k","2","p","9">>,
           <<"1","/","1">>,
           <<"R","u","n","n","i","n","g">>,
           <<"3">>,
           <<"4","5","m">>,
           <<"a","g","o">>>>)
HealthBadCount ==
    Line(<<<<"d","e","f","a","u","l","t">>,
           <<"a","p","i","-","7","d","9","f","8","c","6","b","5","-","x","k","2","p","9">>,
           <<"1","/","1">>,
           <<"R","u","n","n","i","n","g">>,
           <<"a","b","c">>,
           <<"(","4","5","m">>,
           <<"a","g","o",")">>>>)
HealthHeader ==
    Line(<<<<"N","A","M","E","S","P","A","C","E">>,
           <<"N","A","M","E">>,
           <<"R","E","A","D","Y">>,
           <<"S","T","A","T","U","S">>,
           <<"R","E","S","T","A","R","T","S">>,
           <<"A","G","E">>>>)
HealthBadAge ==
    Line(<<<<"d","e","f","a","u","l","t">>,
           <<"a","p","i","-","7","d","9","f","8","c","6","b","5","-","x","k","2","p","9">>,
           <<"1","/","1">>,
           <<"R","u","n","n","i","n","g">>,
           <<"3">>,
           <<"(","x","h">>,
           <<"a","g","o",")">>>>)
HealthJob ==
    Line(<<<<"d","e","f","a","u","l","t">>,
           <<"s","t","a","n","d","a","l","o","n","e","-","j","o","b">>,
           <<"0","/","1">>,
           <<"E","r","r","o","r">>,
           <<"2">>,
           <<"(","5","m">>,
           <<"a","g","o",")">>,
           <<"3","d">>>>)
HealthFiveParts ==
    Line(<<<<"d","e","f","a","u","l","t">>,
           <<"a","p","i","-","7","d","9","f","8","c","6","b","5","-","x","k","2","p","9">>,
           <<"1","/","1">>,
           <<"R","u","n","n","i","n","g">>,
           <<"3">>>>)
HealthGluedCount ==
    Line(<<<<"d","e","f","a","u","l","t">>,
           <<"a","p","i","-","g","a","t","e","w","a","y","-","5","f","6","d","7","c","8","b","9","a","-","a","b","c","d","e">>,
           <<"1","/","1">>,
           <<"R","u","n","n","i","n","g">>,
           <<"1","(","2","5","m","3","s">>,
           <<"a","g","o",")">>,
           <<"2","d">>>>)
HealthBlank == <<" ", "\n">>

MetricApi ==
    Line(<<<<"[","1","0",":","0","0",":","0","0","]">>,
           <<"a","p","i","-","7","d","9","f","8","c","6","b","5","-","x","k","2","p","9">>,
           <<"1","0","0","m">>,
           <<"6","4","M","i">>>>)
MetricGateway ==
    Line(<<<<"[","1","0",":","0","1",":","0","0","]">>,
           <<"a","p","i","-","g","a","t","e","w","a","y","-","5","f","6","d","7","c","8","b","9","a","-","a","b","c","d","e">>,
           <<"2","5","0","m">>,
           <<"1","2","8","M","i">>>>)
MetricCheckout ==
    Line(<<<<"[","1","0",":","0","2",":","0","0","]">>,
           <<"c","h","e","c","k","o","u","t","-","7","d","9","f","8","c","6","b","5","-","x","k","2","p","9">>,
           <<"1">>,
           <<"9","6","M","i">>>>)
MetricRawUnits ==
    Line(<<<<"[","1","0",":","0","3",":","0","0","]">>,
           <<"a","p","i","-","7","d","9","f","8","c","6","b","5","-","x","k","2","p","9">>,
           <<"5","n">>,
           <<"5","1","2","K","i">>>>)
MetricHeader ==
    Line(<<<<"[","1","0",":","0","0",":","0","0","]">>,
           <<"N","A","M","E">>,
           <<"C","P","U","(","c","o","r","e","s",")">>,
           <<"M","E","M","O","R","Y","(","b","y","t","e","s",")">>>>)
MetricNoTimestamp ==
    Line(<<<<"a","p","i","-","7","d","9","f","8","c","6","b","5","-","x","k","2","p","9">>,
           <<"1","0","0","m">>,
           <<"6","4","M","i">>>>)
MetricBadTimestamp ==
    Line(<<<<"[","9","9",":","9","9",":","9","9","]">>,
           <<"a","p","i","-","7","d","9","f","8","c","6","b","5","-","x","k","2","p","9">>,
           <<"1","0","0","m">>,
           <<"6","4","M","i">>>>)
MetricTwoFields ==
    Line(<<<<"[","1","0",":","0","0",":","0","0","]">>,
           <<"1","0","0","m">>,
           <<"6","4","M","i">>>>)
MetricSpacedName ==
    Line(<<<<"[","1","0",":","0","4",":","0","0","]">>,
           <<"b","a","t","c","h">>,
           <<"j","o","b">>,
           <<"5","m">>,
           <<"1","M","i">>>>)
MetricBlank == <<"\n">>

HealthLines ==
    {HealthRestarted, HealthCrashLoop, HealthHealthy, HealthHealthyRecent, HealthOldRestart,
     HealthSixParts, HealthSevenParts, HealthBadCount, HealthHeader,
     HealthBadAge, HealthJob, HealthFiveParts, HealthGluedCount, HealthBlank,
     HealthDaysOld}

MetricLines ==
    {MetricApi, MetricGateway, MetricCheckout, MetricRawUnits, MetricHeader,
     MetricNoTimestamp, MetricBadTimestamp, MetricTwoFields, MetricSpacedName,
     MetricBlank}

\* The lines of a run of the whole analysis.
RunHealthLines == {HealthRestarted, HealthCrashLoop, HealthHealthy, HealthJob}
RunMetricLines == {MetricApi, MetricGateway, MetricCheckout, MetricRawUnits}

MaxHealthLines == 2
MaxMetricLines == 2
MaxRunHealthLines == 2
MaxRunMetricLines == 2
MaxSeries == 2

SeqsUpTo(S, n) == UNION {[1..k -> S] : k \in 0..n}

\* Pod names for _extract_service_name: a prefix, a hash token and a suffix
\* joined with hyphens, and names with fewer parts.
Prefixes ==
    {<<"c","h","e","c","k","o","u","t">>,
     <<"a","p","i","-","g","a","t","e","w","a","y">>,
     <<"W","e","b">>,
     <<"a","-","d","e","a","d","b","e","e","f">>,
     <<"a","-","d","e","a","d","b","e","e","f","-","a","b","c","d","e">>,
     <<"s","v","c","2">>}
HashTokens ==
    {<<"7","d","9","f","8","c","6">>,
     <<"7","d","9","f","8","c","6","b">>,
     <<"7","d","9","f","8","c","6","b","5">>,
     <<"5","f","6","d","7","c","8","b","9","a">>,
     <<"5","f","6","d","7","c","8","b","9","a","0">>,
     <<"c","a","f","e","b","a","b","e">>,
     <<"7","D","9","F","8","C","6","B">>,
     <<"7","d","9","g","8","c","6","b">>}
Suffixes ==
    {<<"x","k","2","p","9">>,
     <<"a","b","c","d">>,
     <<"a","b","c","d","e","-","0">>,
     <<"X","K","2","P","9">>}
PodNames ==
    {p \o <<"-">> \o h \o <<"-">> \o s : p \in Prefixes, h \in HashTokens, s \in Suffixes}
        \cup {PodJob, ServiceApi, <<>>, <<"-">> \o PodApi}

\* Quantities of the cpu and memory columns.
CpuQuantities ==
    {<<"0","m">>, <<"1","m">>, <<"5","0","0","m">>, <<"1","0","0","0","m">>,
     <<"1">>, <<"2">>, <<"0",".","5">>, <<"5","n">>}
MemoryQuantities ==
    {<<"6","4","M","i">>, <<"1","2","8","M","i">>, <<"5","1","2","K","i">>,
     <<"5","1","2","M">>, <<"1","0","4","8","5","7","6">>, <<"1",".","5","M","i">>}

\* The forecasts the library may give: an exception, or the column yhat_upper
\* and the mean of the trend.
CpuFits ==
    {Fit(TRUE, <<0>>, 0),
     Fit(FALSE, <<100000, 250000>>, 150000),
     Fit(FALSE, <<-2000, -1000>>, -1500)}
MemoryFits ==
    {Fit(TRUE, <<0>>, 0),
     Fit(FALSE, <<52428800, 104857600>>, 78643200),
     Fit(FALSE, <<-1048576, -2097152>>, -1048576)}

\* The upper bounds a forecast may hold when generate_recommendation is
\* called on its own: every sequence of 1 to MaxForecast of these values.
MaxForecast == 2
CpuUpperBounds == {-1000, 100000, 250000}
MemoryUpperBounds == {-1048576, 52428800, 104857600}
Forecasts(bounds) ==
    {Fit(FALSE, yhat_upper, yhat_upper[1]) : yhat_upper \in SeqsUpTo(bounds, MaxForecast) \ {<<>>}}
FitsOf(resource_type_) ==
    {Fit(TRUE, <<0>>, 0)}
        \cup (IF resource_type_ = cpu THEN Forecasts(CpuUpperBounds) ELSE Forecasts(MemoryUpperBounds))

---------------------------------------------------------------------------
(* Strings given to a quantity normalizer called on its own.               *)

Garbage == <<"g","a","r","b","a","g","e">>

Unparsable ==
    {Garbage, <<>>, <<"m">>, <<"M","i">>, <<"5","1","2","M","B">>, <<"1",".","2",".","3">>,
     <<"-">>, <<"1","0","0","m","6","4","M","i">>, <<"1"," ","m">>}

ParseKubernetesCpuName == "ResourceRecommenderProphet._parse_kubernetes_cpu"
ParseKubernetesMemoryName == "ResourceRecommenderProphet._parse_kubernetes_memory"
ParseCpuName == "ResourceParser.parse_cpu"
ResourceParserMemoryName == "ResourceParser._parse_kubernetes_memory"

CpuNormalizers == {ParseKubernetesCpuName, ParseCpuName}
MemoryNormalizers == {ParseKubernetesMemoryName, ResourceParserMemoryName}

---------------------------------------------------------------------------
(* Age strings given to _parse_duration called on its own: <<>> is an      *)
(* absent part, <<n>> the part n followed by its unit.                     *)

HourParts == {<<>>, <<0>>, <<2>>, <<18>>}
MinuteParts == {<<>>, <<15>>, <<45>>, <<60>>}
SecondParts == {<<>>, <<3>>, <<90>>}
Wrappings == {"bare", "ago", "parenthesized"}

AgePart(n, unit) == IF n = <<>> THEN <<>> ELSE NatToStr(n[1]) \o <<unit>>

Wrapped(age, wrapping) ==
    CASE wrapping = "bare" -> age
      [] wrapping = "ago" -> age \o <<" ","a","g","o">>
      [] wrapping = "parenthesized" -> <<"(">> \o age \o <<" ","a","g","o",")">>

AgeString(h, m, s, wrapping) ==
    Wrapped(AgePart(h, "h") \o AgePart(m, "m") \o AgePart(s, "s"), wrapping)

AgeStrings ==
    {AgeString(h, m, s, w) : h \in HourParts, m \in MinuteParts, s \in SecondParts, w \in Wrappings}

\* Strings of other shapes: a day unit, units out of order, words.
OtherAges ==
    {<<"3","d">>, <<"3","d","2","h">>, <<"5","s","3","m">>, <<"1","h","2","h">>,
     <<"a","g","o">>, <<"2","."," ","5","h">>}

---------------------------------------------------------------------------
(* What the cluster reports to MetricsCollector.                           *)

Pod(name, phase, restart_count, cpu_, memory_) ==
    [name |-> name, phase |-> phase, restart_count |-> restart_count,
     cpu |-> cpu_, memory |-> memory_]

ReportedPods ==
    {Pod(PodApi, <<"R","u","n","n","i","n","g">>, 3,
         <<"2","5","0","0","0","0","n">>, <<"6","5","5","3","6","K","i">>),
     Pod(PodCheckout, <<"R","u","n","n","i","n","g">>, 0,
         <<"5","n">>, <<"5","1","2","K","i">>),
     Pod(PodJob, <<"P","e","n","d","i","n","g">>, 1, <<"0">>, <<"0">>)}

MaxPods == 2

\* --duration: an int, 120 when not given; None when the collector is
\* constructed without it
Durations ==
    {[isNone |-> TRUE, minutes |-> 0]} \cup {[isNone |-> FALSE, minutes |-> d] : d \in 0..2}

\* Seconds a fetch of metrics and pods takes before the sleep.
FetchSeconds == {0, 1}

\* The clock value up to which the model follows the loop.
MaxClock == 180

---------------------------------------------------------------------------
(* The runs of main: the two paths, which may be the same path, and what   *)
(* is at them before the run.                                              *)

ParsedArgs ==
    {[metrics_file |-> "metrics.txt", restarts_file |-> r] : r \in {"restarts.txt", "metrics.txt"}}

ExistingFile(lines) == [exists |-> TRUE, lines |-> lines]

FilesBefore ==
    {[path \in {"metrics.txt", "restarts.txt"} |->
         IF path = "metrics.txt" THEN m ELSE r] :
       m \in {[exists |-> FALSE, lines |-> <<>>], ExistingFile(<<MetricApi>>)},
       r \in {[exists |-> FALSE, lines |-> <<>>], ExistingFile(<<HealthRestarted>>)}}

\* --duration is an int
MainDurations == {d \in Durations : ~d.isNone}

---------------------------------------------------------------------------
(* The calls.  pc is the position in the called method; "raised" is an     *)
(* exception leaving it.                                                   *)

PipelineIdle ==
    /\ health_data = <<>> /\ perf_data = <<>>
    /\ midx = 1 /\ metrics = <<>>
    /\ hidx = 1 /\ problematic_services = {}
    /\ pending = {} /\ service_metrics = <<>> /\ service_recommendations = <<>>

ResolverIdle == pod_name = <<>> /\ resolved = NoneValue

RecommenderIdle ==
    /\ metrics_df = <<>> /\ resource_type = cpu
    /\ processed_df = <<>> /\ current_usage = 0 /\ recommendation = <<>>

CallIdle == argument = <<>> /\ returned = NoneValue

NoMinutes == [isNone |-> TRUE, minutes |-> 0]
NoEndTime == [isNone |-> TRUE, seconds |-> 0]

CollectorIdle ==
    /\ duration_minutes = NoMinutes /\ end_time = NoEndTime /\ now = 0 /\ pods = <<>>

Paths == {"metrics.txt", "restarts.txt"}
NoFile == [exists |-> FALSE, lines |-> <<>>]
NoArgs == [metrics_file |-> "", restarts_file |-> ""]

MainIdle == main = "idle" /\ args = NoArgs /\ files = [path \in Paths |-> NoFile]

\* MetricsProcessor.process_metrics, one iteration of `for line in lines`
ProcessMetricsStep ==
    /\ pc = "process_metrics"
    /\ midx <= Len(perf_data)
    /\ \E r \in {ProcessMetricLine(AnalysisDate, perf_data[midx])} :
          IF r.raised
          THEN pc' = "raised" /\ UNCHANGED <<midx, metrics>>
          ELSE /\ metrics' = IF r.value.isNone THEN metrics ELSE Append(metrics, r.value.metric)
               /\ midx' = midx + 1
               /\ pc' = pc
    /\ UNCHANGED <<call, callVars, collectorVars, mainVars, health_data, perf_data, hidx, problematic_services, pending,
                   service_metrics, service_recommendations, resolverVars, recommenderVars>>

\* process_metrics returns: `if not lines: return []`, or the end of the loop
ProcessMetricsReturn ==
    /\ pc = "process_metrics"
    /\ midx > Len(perf_data)
    /\ pc' = IF call = "run_analysis" THEN "process_health_data" ELSE "done"
    /\ UNCHANGED <<call, callVars, collectorVars, mainVars, pipelineVars, resolverVars, recommenderVars>>

\* KubernetesMonitor._process_health_data, one iteration of the loop
ProcessHealthStep ==
    /\ pc = "process_health_data"
    /\ hidx <= Len(health_data)
    /\ \E r \in {ProcessSingleHealthLine(health_data[hidx])} :
          IF r.raised
          THEN pc' = "raised" /\ UNCHANGED <<hidx, problematic_services>>
          ELSE /\ problematic_services' =
                      IF ~r.value.isNone /\ r.value.str # <<>>
                      THEN problematic_services \cup {r.value.str}
                      ELSE problematic_services
               /\ hidx' = hidx + 1
               /\ pc' = pc
    /\ UNCHANGED <<call, callVars, collectorVars, mainVars, health_data, perf_data, midx, metrics, pending,
                   service_metrics, service_recommendations, resolverVars, recommenderVars>>

\* _process_health_data returns the set
ProcessHealthReturn ==
    /\ pc = "process_health_data"
    /\ hidx > Len(health_data)
    /\ pc' = IF call = "run_analysis" THEN "services" ELSE "done"
    /\ pending' = IF call = "run_analysis" THEN problematic_services ELSE pending
    /\ UNCHANGED <<call, callVars, collectorVars, mainVars, health_data, perf_data, midx, metrics, hidx, problematic_services,
                   service_metrics, service_recommendations, resolverVars, recommenderVars>>

\* run_analysis, one iteration of `for service in problematic_services`: the
\* order of a set's iteration is not fixed.
AnalyzeService ==
    /\ pc = "services"
    /\ \E service \in pending, cpu_fit \in CpuFits, memory_fit \in MemoryFits :
       \E selected \in {ServiceMetrics(metrics, service)} :
          /\ service_metrics' = (service :> selected) @@ service_metrics
          /\ pending' = pending \ {service}
          /\ IF HasSamples(selected)
             THEN IF VisualizerRaises(selected)
                  THEN pc' = "raised" /\ UNCHANGED service_recommendations
                  ELSE /\ service_recommendations' =
                             (service :> AnalyzeResourceUsage(selected, service, cpu_fit, memory_fit))
                                 @@ service_recommendations
                       /\ pc' = pc
             ELSE pc' = pc /\ UNCHANGED service_recommendations
    /\ UNCHANGED <<call, callVars, collectorVars, mainVars, health_data, perf_data, midx, metrics, hidx, problematic_services,
                   resolverVars, recommenderVars>>

\* run_analysis returns problematic_services, service_recommendations
RunAnalysisReturn ==
    /\ pc = "services"
    /\ pending = {}
    /\ pc' = "done"
    /\ UNCHANGED <<call, callVars, collectorVars, mainVars, pipelineVars, resolverVars, recommenderVars>>

\* KubernetesMonitor.run_analysis on the lines the DataReader returned.
Init ==
    /\ call = "run_analysis"
    /\ pc = "process_metrics"
    /\ health_data \in SeqsUpTo(RunHealthLines, MaxRunHealthLines)
    /\ perf_data \in SeqsUpTo(RunMetricLines, MaxRunMetricLines)
    /\ midx = 1 /\ metrics = <<>>
    /\ hidx = 1 /\ problematic_services = {}
    /\ pending = {} /\ service_metrics = <<>> /\ service_recommendations = <<>>
    /\ ResolverIdle /\ RecommenderIdle /\ CallIdle /\ CollectorIdle /\ MainIdle

Next ==
    \/ ProcessMetricsStep
    \/ ProcessMetricsReturn
    \/ ProcessHealthStep
    \/ ProcessHealthReturn
    \/ AnalyzeService
    \/ RunAnalysisReturn

Spec == Init /\ [][Next]_vars

\* _process_health_data and process_metrics called on their own.
InitParse ==
    /\ \/ /\ call = "_process_health_data"
          /\ pc = "process_health_data"
          /\ health_data \in SeqsUpTo(HealthLines, MaxHealthLines)
          /\ perf_data = <<>>
       \/ /\ call = "process_metrics"
          /\ pc = "process_metrics"
          /\ health_data = <<>>
          /\ perf_data \in SeqsUpTo(MetricLines, MaxMetricLines)
    /\ midx = 1 /\ metrics = <<>>
    /\ hidx = 1 /\ problematic_services = {}
    /\ pending = {} /\ service_metrics = <<>> /\ service_recommendations = <<>>
    /\ ResolverIdle /\ RecommenderIdle /\ CallIdle /\ CollectorIdle /\ MainIdle

NextParse ==
    \/ ProcessMetricsStep
    \/ ProcessMetricsReturn
    \/ ProcessHealthStep
    \/ ProcessHealthReturn

SpecParse == InitParse /\ [][NextParse]_vars

\* KubernetesMonitor._extract_service_name called on a pod name.
ExtractServiceNameCall ==
    /\ pc = "extract_service_name"
    /\ resolved' = Some(ExtractServiceName(pod_name))
    /\ pc' = "done"
    /\ UNCHANGED <<call, callVars, collectorVars, mainVars, pod_name, pipelineVars, recommenderVars>>

InitResolver ==
    /\ call = "_extract_service_name"
    /\ pc = "extract_service_name"
    /\ pod_name \in PodNames
    /\ resolved = NoneValue
    /\ PipelineIdle /\ RecommenderIdle /\ CallIdle /\ CollectorIdle /\ MainIdle

\* _extract_service_name called again, on the name the first call returned
ExtractServiceNameAgain ==
    /\ call = "_extract_service_name"
    /\ pc = "done"
    /\ argument' = resolved.str
    /\ returned' = Returned(ExtractServiceName(resolved.str))
    /\ pc' = "resolved_again"
    /\ UNCHANGED <<call, collectorVars, mainVars, resolverVars, pipelineVars, recommenderVars>>

NextResolver == ExtractServiceNameCall \/ ExtractServiceNameAgain

SpecResolver == InitResolver /\ [][NextResolver]_vars

\* generate_recommendation: _preprocess_metrics and the mean of the y column
PreprocessAndMean ==
    /\ pc = "preprocess"
    /\ \E processed \in {PreprocessMetrics(metrics_df, resource_type)} :
          /\ processed_df' = processed
          /\ current_usage' = Mean(processed)
    /\ pc' = "fit"
    /\ UNCHANGED <<call, callVars, collectorVars, mainVars, metrics_df, resource_type, recommendation, pipelineVars, resolverVars>>

\* generate_recommendation: the fit, the forecast and the dict returned, or
\* the exception raised again
FitAndFormat ==
    /\ pc = "fit"
    /\ \E fit \in FitsOf(resource_type) :
       \E r \in {RecommendationOf(current_usage, resource_type, fit)} :
          IF r.raised
          THEN pc' = "raised" /\ UNCHANGED recommendation
          ELSE pc' = "done" /\ recommendation' = r.value
    /\ UNCHANGED <<call, callVars, collectorVars, mainVars, metrics_df, resource_type, processed_df, current_usage,
                   pipelineVars, resolverVars>>

\* ResourceRecommenderProphet.generate_recommendation called on a frame with
\* at least one row.
InitRecommender ==
    /\ call = "generate_recommendation"
    /\ pc = "preprocess"
    /\ \/ /\ resource_type = cpu
          /\ metrics_df \in SeqsUpTo(CpuQuantities, MaxSeries) \ {<<>>}
       \/ /\ resource_type = memory
          /\ metrics_df \in SeqsUpTo(MemoryQuantities, MaxSeries) \ {<<>>}
    /\ processed_df = <<>>
    /\ current_usage = 0
    /\ recommendation = <<>>
    /\ PipelineIdle /\ ResolverIdle /\ CallIdle /\ CollectorIdle /\ MainIdle

NextRecommender == PreprocessAndMean \/ FitAndFormat

SpecRecommender == InitRecommender /\ [][NextRecommender]_vars

---------------------------------------------------------------------------
(* A quantity normalizer called on a string.                               *)

NormalizerOutcome(normalizer, value) ==
    CASE normalizer = ParseKubernetesCpuName -> Returned(ParseKubernetesCpu(value))
      [] normalizer = ParseKubernetesMemoryName -> Returned(ParseKubernetesMemory(value))
      [] normalizer = ParseCpuName -> ParseCpu(value)
      [] normalizer = ResourceParserMemoryName -> Returned(ResourceParserParseKubernetesMemory(value))

NormalizerCall ==
    /\ pc = "normalize"
    /\ \E r \in {NormalizerOutcome(call, argument)} :
          /\ returned' = r
          /\ pc' = IF r.raised THEN "raised" ELSE "done"
    /\ UNCHANGED <<call, argument, pipelineVars, resolverVars, recommenderVars, collectorVars, mainVars>>

InitNormalizer ==
    /\ pc = "normalize"
    /\ \/ call \in CpuNormalizers /\ argument \in CpuQuantities \cup Unparsable
       \/ call \in MemoryNormalizers /\ argument \in MemoryQuantities \cup Unparsable
    /\ returned = NoneValue
    /\ PipelineIdle /\ ResolverIdle /\ RecommenderIdle /\ CollectorIdle /\ MainIdle

NextNormalizer == NormalizerCall

SpecNormalizer == InitNormalizer /\ [][NextNormalizer]_vars

---------------------------------------------------------------------------
(* KubernetesMonitor._parse_duration called on an age string.              *)

ParseDurationCall ==
    /\ pc = "parse_duration"
    /\ \E hours \in {ParseDuration(argument)} :
          IF hours.ok
          THEN pc' = "done" /\ returned' = Returned(hours.val)
          ELSE pc' = "raised" /\ returned' = Raised
    /\ UNCHANGED <<call, argument, pipelineVars, resolverVars, recommenderVars, collectorVars, mainVars>>

InitDuration ==
    /\ call = "_parse_duration"
    /\ pc = "parse_duration"
    /\ argument \in AgeStrings \cup OtherAges
    /\ returned = NoneValue
    /\ PipelineIdle /\ ResolverIdle /\ RecommenderIdle /\ CollectorIdle /\ MainIdle

NextDuration == ParseDurationCall

SpecDuration == InitDuration /\ [][NextDuration]_vars

---------------------------------------------------------------------------
(* MetricsCollector.log_metrics, then the analysis reading the two files   *)
(* as in main.                                                             *)

\* One iteration of `while not self.is_collection_complete()`: the lines
\* are appended to the two files, then time.sleep(60).
LogMetricsIteration ==
    /\ pc = "log_metrics"
    /\ now < MaxClock
    /\ ~IsCollectionComplete(duration_minutes, end_time, now)
    /\ \E timestamp \in {Strftime(36000 + now)} :
          /\ perf_data' = perf_data \o MetricsLines(timestamp, pods)
          /\ health_data' = health_data \o HealthLinesWritten(timestamp, pods)
    /\ \E fetch \in FetchSeconds : now' = now + fetch + PollSeconds
    /\ UNCHANGED <<pc, call, midx, metrics, hidx, problematic_services, pending,
                   service_metrics, service_recommendations, resolverVars, recommenderVars,
                   callVars, duration_minutes, end_time, pods, mainVars>>

\* The loop ends; main constructs KubernetesMonitor and calls run_analysis,
\* which reads the two files.
LogMetricsReturn ==
    /\ pc = "log_metrics"
    /\ IsCollectionComplete(duration_minutes, end_time, now)
    /\ pc' = "process_metrics"
    /\ call' = "run_analysis"
    /\ UNCHANGED <<pipelineVars, resolverVars, recommenderVars, callVars, collectorVars, mainVars>>

InitCollector ==
    /\ call = "log_metrics"
    /\ pc = "log_metrics"
    /\ duration_minutes \in Durations
    /\ end_time = EndTimeOf(duration_minutes)
    /\ now = 0
    /\ pods \in SeqsUpTo(ReportedPods, MaxPods)
    /\ PipelineIdle /\ ResolverIdle /\ RecommenderIdle /\ CallIdle /\ MainIdle

NextCollector ==
    \/ LogMetricsIteration
    \/ LogMetricsReturn
    \/ ProcessMetricsStep
    \/ ProcessMetricsReturn
    \/ ProcessHealthStep
    \/ ProcessHealthReturn
    \/ RunAnalysisReturn

SpecCollector == InitCollector /\ [][NextCollector]_vars

---------------------------------------------------------------------------
(* HealthAnalyzer.analyze_pods and KubernetesMonitor._process_health_data  *)
(* called on the same lines.                                               *)

AnalyzePods ==
    /\ pc = "analyze_pods"
    /\ returned' = AnalyzePodsFrom(health_data, {})
    /\ pc' = "process_health_data"
    /\ UNCHANGED <<call, argument, pipelineVars, resolverVars, recommenderVars, collectorVars, mainVars>>

InitVariants ==
    /\ call = "analyze_pods"
    /\ pc = "analyze_pods"
    /\ health_data \in SeqsUpTo(HealthLines, MaxHealthLines)
    /\ perf_data = <<>>
    /\ midx = 1 /\ metrics = <<>>
    /\ hidx = 1 /\ problematic_services = {}
    /\ pending = {} /\ service_metrics = <<>> /\ service_recommendations = <<>>
    /\ ResolverIdle /\ RecommenderIdle /\ CallIdle /\ CollectorIdle /\ MainIdle

NextVariants ==
    \/ AnalyzePods
    \/ ProcessHealthStep
    \/ ProcessHealthReturn

SpecVariants == InitVariants /\ [][NextVariants]_vars

---------------------------------------------------------------------------
(* run.py main, from the return of parse_arguments.  main is the block     *)
(* control is in: "try", "finally" (nothing to raise afterwards),          *)
(* "finally_reraise" (the exception is raised again afterwards),           *)
(* "returned", "raised".  Inside the try block pc is the position.         *)

\* collector = MetricsCollector(...): start_time and end_time are set, or
\* the Kubernetes setup raises.
ConstructCollector ==
    /\ main = "try"
    /\ pc = "construct_collector"
    /\ \/ /\ end_time' = EndTimeOf(duration_minutes)
          /\ pc' = "log_metrics"
          /\ UNCHANGED main
       \/ /\ main' = "finally_reraise"
          /\ UNCHANGED <<end_time, pc>>
    /\ UNCHANGED <<call, pipelineVars, resolverVars, recommenderVars, callVars,
                   duration_minutes, now, pods, args, files>>

\* log_metrics, one iteration of the loop: both files are appended to.
MainLogMetricsIteration ==
    /\ main = "try"
    /\ pc = "log_metrics"
    /\ now < MaxClock
    /\ ~IsCollectionComplete(duration_minutes, end_time, now)
    /\ \E timestamp \in {Strftime(36000 + now)} :
          files' = AppendTo(AppendTo(files, args.metrics_file, MetricsLines(timestamp, pods)),
                            args.restarts_file, HealthLinesWritten(timestamp, pods))
    /\ \E fetch \in FetchSeconds : now' = now + fetch + PollSeconds
    /\ UNCHANGED <<pc, call, pipelineVars, resolverVars, recommenderVars, callVars,
                   duration_minutes, end_time, pods, main, args>>

\* log_metrics, an iteration that is cut short: in a fetch, before anything
\* is written; while the metrics file is written, after some of its lines;
\* or while the health file is written, after the metrics file.  log_metrics
\* raises again what it caught; main raises an Exception again after
\* finally and goes on to finally after a KeyboardInterrupt.
MainLogMetricsRaises ==
    /\ main = "try"
    /\ pc = "log_metrics"
    /\ ~IsCollectionComplete(duration_minutes, end_time, now)
    /\ \/ UNCHANGED files
       \/ \E k \in 0..Len(pods) :
             files' = AppendTo(files, args.metrics_file,
                               SubSeq(MetricsLines(Strftime(36000 + now), pods), 1, k))
       \/ \E k \in 0..Len(pods) :
             files' = AppendTo(AppendTo(files, args.metrics_file,
                                        MetricsLines(Strftime(36000 + now), pods)),
                               args.restarts_file,
                               SubSeq(HealthLinesWritten(Strftime(36000 + now), pods), 1, k))
    /\ main' \in {"finally_reraise", "finally"}
    /\ UNCHANGED <<pc, call, pipelineVars, resolverVars, recommenderVars, callVars,
                   collectorVars, args>>

\* The loop of log_metrics ends; main constructs KubernetesMonitor.
MainLogMetricsReturn ==
    /\ main = "try"
    /\ pc = "log_metrics"
    /\ IsCollectionComplete(duration_minutes, end_time, now)
    /\ pc' = "read_files"
    /\ UNCHANGED <<call, pipelineVars, resolverVars, recommenderVars, callVars,
                   collectorVars, mainVars>>

\* run_analysis: read_performance_data and read_health_data
ReadFiles ==
    /\ main = "try"
    /\ pc = "read_files"
    /\ perf_data' = ReadLines(files, args.metrics_file)
    /\ health_data' = ReadLines(files, args.restarts_file)
    /\ call' = "run_analysis"
    /\ pc' = "process_metrics"
    /\ UNCHANGED <<midx, metrics, hidx, problematic_services, pending, service_metrics,
                   service_recommendations, resolverVars, recommenderVars, callVars,
                   collectorVars, mainVars>>

\* run_analysis returned: the results are printed, which may raise.
PrintResults ==
    /\ main = "try"
    /\ call = "run_analysis"
    /\ pc = "done"
    /\ main' = IF PrintRaises(service_recommendations) THEN "finally_reraise" ELSE "finally"
    /\ UNCHANGED <<pc, call, pipelineVars, resolverVars, recommenderVars, callVars,
                   collectorVars, args, files>>

\* run_analysis raised: except Exception prints and raises again.
AnalysisRaised ==
    /\ main = "try"
    /\ call = "run_analysis"
    /\ pc = "raised"
    /\ main' = "finally_reraise"
    /\ UNCHANGED <<pc, call, pipelineVars, resolverVars, recommenderVars, callVars,
                   collectorVars, args, files>>

\* KeyboardInterrupt anywhere in the try block: log_metrics raises it again,
\* except KeyboardInterrupt of main prints and goes on to finally.
KeyboardInterrupt ==
    /\ main = "try"
    /\ main' = "finally"
    /\ UNCHANGED <<pc, call, pipelineVars, resolverVars, recommenderVars, callVars,
                   collectorVars, args, files>>

\* finally: the two files are removed; then main returns or the exception
\* goes on.
Finally ==
    /\ main \in {"finally", "finally_reraise"}
    /\ files' = Cleanup(files, args)
    /\ main' = IF main = "finally" THEN "returned" ELSE "raised"
    /\ UNCHANGED <<pc, call, pipelineVars, resolverVars, recommenderVars, callVars,
                   collectorVars, args>>

InitMain ==
    /\ call = "main"
    /\ main = "try"
    /\ pc = "construct_collector"
    /\ args \in ParsedArgs
    /\ files \in FilesBefore
    /\ duration_minutes \in MainDurations
    /\ end_time = NoEndTime
    /\ now = 0
    /\ pods \in SeqsUpTo(ReportedPods, MaxPods)
    /\ PipelineIdle /\ ResolverIdle /\ RecommenderIdle /\ CallIdle

\* The steps of run_analysis stop when main has left its try block.
InTry(step) == main = "try" /\ step

NextMain ==
    \/ ConstructCollector
    \/ MainLogMetricsIteration
    \/ MainLogMetricsRaises
    \/ MainLogMetricsReturn
    \/ ReadFiles
    \/ InTry(ProcessMetricsStep)
    \/ InTry(ProcessMetricsReturn)
    \/ InTry(ProcessHealthStep)
    \/ InTry(ProcessHealthReturn)
    \/ InTry(AnalyzeService)
    \/ InTry(RunAnalysisReturn)
    \/ PrintResults
    \/ AnalysisRaised
    \/ KeyboardInterrupt
    \/ Finally

SpecMain == InitMain /\ [][NextMain]_vars

---------------------------------------------------------------------------
(* The properties.  A health line is read through its tokens: the instance *)
(* name is token 1, the status token 3, the restart count the integer of   *)
(* token 4 before any parenthesis, the age tokens 5 and 6 joined (counted  *)
(* from 0).                                                                *)

TokenCount(line) == Len(Split(line))
IsHeaderOrBlank(line) == Contains(line, NAME) \/ Strip(line) = <<>>
ServiceOf(line) == ExtractServiceName(Split(line)[2])
StatusOf(line) == Split(line)[4]
CountOf(line) == ParseInt(SplitOn(Split(line)[5], "(")[1])
AgeOf(line) == ParseDuration(JoinSpace(Slice(Split(line), 5, 7)))
TwoHours == 2 * 60 * 60 * 1000

\* The line states an unstable instance: count > 0, or CrashLoopBackOff.
StatesUnstable(line) ==
    /\ ~IsHeaderOrBlank(line)
    /\ TokenCount(line) >= 5
    /\ CountOf(line).ok
    /\ CountOf(line).val > 0 \/ StatusOf(line) = CrashLoopBackOff

\* The line has its seven tokens, an integer count and an age that parses.
Evaluated(line) ==
    /\ ~IsHeaderOrBlank(line)
    /\ TokenCount(line) >= 7
    /\ CountOf(line).ok
    /\ AgeOf(line).ok

HealthCallDone == call = "_process_health_data" /\ pc = "done"
MetricsCallDone == call = "process_metrics" /\ pc = "done"

\* The lines _process_health_data has gone through so far.
Processed == {health_data[i] : i \in 1..(hidx - 1)}

\* C1 as stated: every well-formed line that states an unstable instance puts
\* its resolved service into the set, whatever its age.
C1_AnyAge ==
    \A line \in Processed :
        Evaluated(line) /\ StatesUnstable(line) => ServiceOf(line) \in problematic_services

\* C1, amended: every line of at least seven tokens without NAME, with an
\* integer restart count and an age that _parse_duration parses to at most 2
\* hours, that has count > 0 or status CrashLoopBackOff, puts its resolved
\* service into the set, whatever the other lines are.
C1_Sufficiency ==
    \A line \in Processed :
        Evaluated(line) /\ StatesUnstable(line) /\ AgeOf(line).val <= TwoHours
            => ServiceOf(line) \in problematic_services

\* A line of status CrashLoopBackOff with count 0 and an age of exactly 2
\* hours has flagged its service, next to other lines.
C1_Witness ==
    /\ HealthCallDone
    /\ Len(health_data) = 2
    /\ health_data[2] = HealthCrashLoop
    /\ ServiceGateway \in problematic_services

\* The services the lines of a set flag, each line taken on its own.
FlaggedBy(lines) ==
    {r.value.str : r \in {x \in {ProcessSingleHealthLine(l) : l \in lines} : ~x.value.isNone}}

\* C2: a service is in the set only if a processed line resolving to it has
\* restart count > 0 or status CrashLoopBackOff; the returned set is a
\* function of the set of the lines, so neither their order nor their
\* repetition matters, and it is empty when no line states an unstable
\* instance.
C2_Necessity ==
    /\ \A s \in problematic_services :
          \E line \in Processed : StatesUnstable(line) /\ ServiceOf(line) = s
    /\ HealthCallDone => problematic_services = FlaggedBy(Range(health_data))
    /\ HealthCallDone /\ (\A line \in Range(health_data) : ~StatesUnstable(line))
          => problematic_services = {}

\* The same unstable line given twice yields its service once.
C2_Witness ==
    /\ HealthCallDone
    /\ health_data = <<HealthRestarted, HealthRestarted>>
    /\ problematic_services = {ServiceApi}

\* C3 as stated: the samples run_analysis takes for a flagged service are
\* exactly the parsed samples whose instance name resolves to that service.
C3_PartitionByService ==
    \A s \in DOMAIN service_metrics :
        LET ResolvesTo(m) == ExtractServiceName(m.name) = s
        IN service_metrics[s] = SelectSeq(metrics, ResolvesTo)

\* An entry of the mapping holds the recommendations of both resources.
Complete(entry) == DOMAIN entry # {}

\* C4 as stated: when the run has completed, a service whose recommendation
\* failed has no entry, so every entry of the mapping is complete.
C4_EntriesComplete ==
    pc = "done" =>
        \A s \in DOMAIN service_recommendations : Complete(service_recommendations[s])

\* A health line that is neither header nor blank and is malformed: too few
\* tokens, a restart count that is no integer, or an age that does not parse.
MalformedHealth(line) ==
    /\ ~IsHeaderOrBlank(line)
    /\ \/ TokenCount(line) < 7
       \/ ~CountOf(line).ok
       \/ ~AgeOf(line).ok

\* A metric line that is neither header nor blank and is malformed: no
\* bracketed time at its start, a time that is no time of day, or fewer than
\* three fields after it.
MalformedMetric(raw) ==
    /\ ~IsHeaderOrBlank(raw)
    /\ \/ TimestampMatchLength(Strip(raw)) = 0
       \/ ~ToDatetime(AnalysisDate, SubSeq(Strip(raw), 2, TimestampMatchLength(Strip(raw)) - 1)).ok
       \/ Len(Split(SubTimestamps(Strip(raw)))) < 3

WellFormedHealth(line) == ~MalformedHealth(line)
WellFormedMetric(raw) == ~MalformedMetric(raw)

\* The samples of a sequence of lines, each line taken on its own, in order.
RECURSIVE SamplesOf(_)
SamplesOf(lines) ==
    IF lines = <<>> THEN <<>>
    ELSE (IF ProcessMetricLine(AnalysisDate, Head(lines)).value.isNone THEN <<>>
          ELSE <<ProcessMetricLine(AnalysisDate, Head(lines)).value.metric>>)
         \o SamplesOf(Tail(lines))

\* C5: no line makes _process_health_data or process_metrics raise, every
\* line is gone through, and the result is the result of the same sequence
\* without its malformed lines.
C5_MalformedSkipped ==
    /\ pc # "raised"
    /\ HealthCallDone =>
          /\ hidx = Len(health_data) + 1
          /\ problematic_services = FlaggedBy({l \in Range(health_data) : WellFormedHealth(l)})
    /\ MetricsCallDone =>
          /\ midx = Len(perf_data) + 1
          /\ metrics = SamplesOf(SelectSeq(perf_data, WellFormedMetric))

\* A line with a restart count that is no integer came first and the line
\* after it was still evaluated.
C5_Witness ==
    /\ HealthCallDone
    /\ health_data = <<HealthBadCount, HealthRestarted>>
    /\ problematic_services = {ServiceApi}

\* C6 as stated: a line of exactly 6 tokens with a restart count > 0 and a
\* one-token age of at most 2 hours flags its service.
C6_SixTokensEvaluated ==
    \A line \in Processed :
        /\ ~IsHeaderOrBlank(line)
        /\ TokenCount(line) = 6
        /\ CountOf(line).ok /\ CountOf(line).val > 0
        /\ AgeOf(line).ok /\ AgeOf(line).val <= TwoHours
        => ServiceOf(line) \in problematic_services

\* C6, amended: a line of exactly 7 tokens (the age being tokens 5 and 6) is
\* evaluated, so with a restart count > 0 and an age of at most 2 hours it
\* flags its service; a line of fewer than 7 tokens is skipped, so every
\* flagged service comes from a line of at least 7 tokens.
C6_SevenTokensEvaluated ==
    /\ \A line \in Processed :
          /\ ~IsHeaderOrBlank(line)
          /\ TokenCount(line) = 7
          /\ CountOf(line).ok /\ CountOf(line).val > 0
          /\ AgeOf(line).ok /\ AgeOf(line).val <= TwoHours
          => ServiceOf(line) \in problematic_services
    /\ \A s \in problematic_services :
          \E line \in Processed : TokenCount(line) >= 7 /\ ServiceOf(line) = s

\* A line of 7 tokens with restart count 3 and age "45m ago" flagged its
\* service.
C6_Witness ==
    /\ HealthCallDone
    /\ health_data = <<HealthSevenParts>>
    /\ problematic_services = {ServiceCheckout}

\* C7: the keys of the mapping are the flagged services whose list of samples
\* in run_analysis is not empty; no other service has an entry; a run in
\* which no service is flagged does not raise and returns an empty mapping.
C7_KeysAreServicesWithSamples ==
    /\ DOMAIN service_recommendations \subseteq problematic_services
    /\ pc = "done" =>
          DOMAIN service_recommendations =
              {s \in problematic_services : service_metrics[s] # <<>>}
    /\ pc = "raised" => problematic_services # {}
    /\ pc = "done" /\ problematic_services = {} => DOMAIN service_recommendations = {}

\* Two services were flagged, one with a sample and one without: only the
\* first has an entry.
C7_Witness ==
    /\ pc = "done"
    /\ problematic_services = {ServiceApi, PodJob}
    /\ DOMAIN service_recommendations = {ServiceApi}
    /\ service_metrics[PodJob] = <<>>

\* name = run - token - suffix ..., the run being the first k characters:
\* letters and hyphens, then "-", 8 to 10 characters over [a-f0-9], "-" and
\* 5 characters over [a-z0-9].
SplitsAt(name, k) ==
    /\ k >= 1
    /\ \A i \in 1..k : name[i] \in Lower \cup Upper \cup {"-"}
    /\ \E n \in 8..10 :
          /\ Len(name) >= k + n + 7
          /\ name[k + 1] = "-"
          /\ \A i \in (k + 2)..(k + n + 1) : name[i] \in {"a","b","c","d","e","f"} \cup Digit
          /\ name[k + n + 2] = "-"
          /\ \A i \in (k + n + 3)..(k + n + 7) : name[i] \in Lower \cup Digit

\* C8: _extract_service_name returns a string for every name; when the name
\* starts with a run of letters and hyphens followed by the two tokens, the
\* string is the longest such run, otherwise it is the name itself;
\* "checkout-7d9f8c6b5-xk2p9" gives "checkout" and "standalone-job" gives
\* "standalone-job".
C8_LongestRunOrIdentity ==
    /\ pc # "raised"
    /\ pc = "done" =>
          /\ ~resolved.isNone
          /\ \A k \in 1..Len(pod_name) :
                SplitsAt(pod_name, k) /\ (\A j \in (k + 1)..Len(pod_name) : ~SplitsAt(pod_name, j))
                    => resolved.str = SubSeq(pod_name, 1, k)
          /\ (\A k \in 1..Len(pod_name) : ~SplitsAt(pod_name, k)) => resolved.str = pod_name
          /\ pod_name = PodCheckout => resolved.str = ServiceCheckout
          /\ pod_name = PodJob => resolved.str = PodJob

\* A name with two runs that the pattern can take, "a" and "a-deadbeef", was
\* resolved to the longer one.
C8_Witness ==
    /\ pc = "done"
    /\ pod_name = <<"a","-","d","e","a","d","b","e","e","f","-","7","d","9","f","8","c","6","b","-","x","k","2","p","9">>
    /\ resolved = Some(<<"a","-","d","e","a","d","b","e","e","f">>)

\* The quantity "Nm" of a series in which every sample is the same "Nm".
IsMillicores(q) == Len(q) >= 2 /\ q[Len(q)] = "m" /\ AllIn(SubSeq(q, 1, Len(q) - 1), Digit)

\* C9 as stated: the current usage of a cpu series in which every sample is
\* the same quantity "Nm" is formatted as "Nm".
C9_MillicoresRoundTrip ==
    /\ pc = "done"
    /\ resource_type = cpu
    /\ IsMillicores(metrics_df[1])
    /\ \A i \in 1..Len(metrics_df) : metrics_df[i] = metrics_df[1]
    => recommendation.current_usage.formatted = metrics_df[1]

\* C10 as stated: in a series that holds the same amount of cpu once without
\* and once with the millicore suffix, "1" and "1000m", the two normalized
\* values are equal.
C10_OneCanonicalUnit ==
    /\ pc # "preprocess"
    /\ resource_type = cpu
    /\ metrics_df = <<<<"1">>, <<"1","0","0","0","m">>>>
    => processed_df[1] = processed_df[2]

\* The greatest upper bound of the forecast the dict reports.
PeakOf(forecast) == CHOOSE x \in Range(forecast) : \A y \in Range(forecast) : y <= x

\* C11: the raw recommendation is max(0, greatest upper bound) times 1.2, it
\* is not negative, the formatted recommendation carries no minus sign, and
\* the reported buffer is 1.2.
C11_RecommendationValue ==
    pc = "done" =>
        /\ recommendation.recommendation.raw_value
              = ((IF PeakOf(recommendation.forecast) > 0 THEN PeakOf(recommendation.forecast) ELSE 0) * 12) \div 10
        /\ recommendation.recommendation.raw_value >= 0
        /\ recommendation.recommendation.formatted[1] # "-"
        /\ recommendation.recommendation.formatted
              = IF resource_type = cpu
                THEN IntToStr(recommendation.recommendation.raw_value) \o <<"m">>
                ELSE IntToStr(recommendation.recommendation.raw_value \div 1048576) \o Mi
        /\ recommendation.factors.buffer = 1200

\* A forecast whose upper bounds are all negative gave the recommendation 0,
\* and one with a positive peak gave the peak times 1.2.
C11_Witness ==
    /\ pc = "done"
    /\ resource_type = memory
    /\ recommendation.forecast = <<52428800, 104857600>>
    /\ recommendation.recommendation.raw_value = 125829120
    /\ recommendation.recommendation.formatted = <<"1","2","0","M","i">>

---------------------------------------------------------------------------
(* C12: each of the four quantity normalizers returns a number for every   *)
(* input string, and returns 0.0 for the string "garbage"; none raises.    *)

NormalizerCalled == pc \in {"done", "raised"} /\ call \in CpuNormalizers \cup MemoryNormalizers

C12_NormalizersNeverRaise ==
    NormalizerCalled =>
        /\ ~returned.raised
        /\ returned.value \in Int
        /\ argument = Garbage => returned.value = 0

---------------------------------------------------------------------------
(* C13: for a memory quantity made of a decimal number and a suffix that   *)
(* is not one of Ki, Mi, Gi, Ti, _parse_kubernetes_memory returns what it  *)
(* returns for the number alone (multiplier 1), which is not 0.            *)

NumberLength(v) ==
    Cardinality({i \in 1..Len(v) : \A j \in 1..i : v[j] \in Digit \cup {"."}})

NumberOf(v) == SubSeq(v, 1, NumberLength(v))
SuffixOf(v) == SubSeq(v, NumberLength(v) + 1, Len(v))

HasUnknownSuffix(v) ==
    /\ NumberOf(v) # <<>>
    /\ AllIn(NumberOf(v), Digit)
    /\ SuffixOf(v) # <<>>
    /\ AllIn(SuffixOf(v), Lower \cup Upper)
    /\ SuffixOf(v) \notin {<<"K","i">>, <<"M","i">>, <<"G","i">>, <<"T","i">>}

C13_UnknownSuffixIsUnsuffixed ==
    (/\ pc \in {"done", "raised"}
     /\ call \in MemoryNormalizers
     /\ HasUnknownSuffix(argument))
        => /\ ~returned.raised
           /\ returned.value = NormalizerOutcome(call, NumberOf(argument)).value
           /\ returned.value # 0

---------------------------------------------------------------------------
(* C14: for an age string [<H>h][<M>m][<S>s], bare, followed by " ago" or  *)
(* in parentheses with " ago", _parse_duration returns H + M/60 + S/3600   *)
(* hours, that is 3600 H + 60 M + S seconds (here in thousandths); an      *)
(* absent part counts 0.  "45m ago" is 0.75 h, "(2h15m ago)" 2.25 h and    *)
(* "18h ago" 18 h.                                                         *)

PartValue(n) == IF n = <<>> THEN 0 ELSE n[1]

DurationCalled == call = "_parse_duration" /\ pc \in {"done", "raised"}

C14_AgeInHours ==
    DurationCalled =>
        /\ \A h \in HourParts, m \in MinuteParts, s \in SecondParts, w \in Wrappings :
              argument = AgeString(h, m, s, w)
                  => /\ ~returned.raised
                     /\ returned.value
                           = 1000 * (3600 * PartValue(h) + 60 * PartValue(m) + PartValue(s))
        /\ argument = <<"4","5","m"," ","a","g","o">> => returned = Returned(2700000)
        /\ argument = <<"(","2","h","1","5","m"," ","a","g","o",")">> => returned = Returned(8100000)
        /\ argument = <<"1","8","h"," ","a","g","o">> => returned = Returned(64800000)

C14_Witness ==
    /\ DurationCalled
    /\ argument = <<"(","2","h","1","5","m"," ","a","g","o",")">>
    /\ returned = Returned(8100000)

---------------------------------------------------------------------------
(* C15: process_metrics gives, in input order, exactly one sample for each *)
(* line "[HH:MM:SS] <name> <cpu> <memory>" without NAME: cpu and memory    *)
(* are the last two fields, the name is the fields before them, the        *)
(* timestamp is the analysis date with HH:MM:SS.  A line with NAME, a line *)
(* without a leading bracketed timestamp and a line with fewer than three  *)
(* fields after the timestamp give no sample, and a line given twice gives *)
(* two equal samples.                                                      *)

IsBracketedTime(token) ==
    /\ Len(token) = 10
    /\ token[1] = "[" /\ token[10] = "]" /\ token[4] = ":" /\ token[7] = ":"
    /\ \A i \in {2, 3, 5, 6, 8, 9} : token[i] \in Digit
    /\ DigitsValue(SubSeq(token, 2, 3)) < 24
    /\ DigitsValue(SubSeq(token, 5, 6)) < 60
    /\ DigitsValue(SubSeq(token, 8, 9)) < 60

SecondsOfDay(token) ==
    3600 * DigitsValue(SubSeq(token, 2, 3)) + 60 * DigitsValue(SubSeq(token, 5, 6))
        + DigitsValue(SubSeq(token, 8, 9))

HasLeadingTimestamp(line) == Split(line) # <<>> /\ Split(line)[1][1] = "["

IsSampleLine(line) ==
    /\ ~Contains(line, NAME)
    /\ TokenCount(line) >= 4
    /\ IsBracketedTime(Split(line)[1])

GivesNoSample(line) ==
    \/ Contains(line, NAME)
    \/ ~HasLeadingTimestamp(line)
    \/ TokenCount(line) < 4

SampleOfLine(line) ==
    [name |-> JoinSpace(SubSeq(Split(line), 2, TokenCount(line) - 2)),
     cpu |-> Split(line)[TokenCount(line) - 1],
     memory |-> Split(line)[TokenCount(line)],
     timestamp |-> [date |-> AnalysisDate, seconds |-> SecondsOfDay(Split(line)[1])]]

\* The samples the claim states, line by line; a line the claim says nothing
\* about contributes what it gives on its own.
RECURSIVE StatedSamples(_)
StatedSamples(lines) ==
    IF lines = <<>> THEN <<>>
    ELSE (IF IsSampleLine(Head(lines)) THEN <<SampleOfLine(Head(lines))>>
          ELSE IF GivesNoSample(Head(lines)) THEN <<>>
          ELSE SamplesOf(<<Head(lines)>>))
         \o StatedSamples(Tail(lines))

C15_MetricLineParsing ==
    MetricsCallDone =>
        /\ metrics = StatedSamples(perf_data)
        /\ (Len(perf_data) = 2 /\ perf_data[1] = perf_data[2] /\ IsSampleLine(perf_data[1]))
              => Len(metrics) = 2 /\ metrics[1] = metrics[2]

C15_Witness ==
    /\ MetricsCallDone
    /\ perf_data = <<MetricSpacedName, MetricTwoFields>>
    /\ metrics = <<[name |-> <<"b","a","t","c","h"," ","j","o","b">>,
                    cpu |-> <<"5","m">>, memory |-> <<"1","M","i">>,
                    timestamp |-> [date |-> AnalysisDate, seconds |-> 36240]]>>

---------------------------------------------------------------------------
(* C16: every metric line and every health line log_metrics writes for a   *)
(* pod is accepted by the parser that reads it, which yields the name, cpu *)
(* and memory (the name, status and restart count) the collector wrote; a  *)
(* pod written with a restart count > 0 is flagged by _process_health_data.*)

\* The pod the k-th line of a file was written for.
WrittenFor(k) == pods[((k - 1) % Len(pods)) + 1]

FilesAnalyzed == call = "run_analysis" /\ pc = "done" /\ pods # <<>>

C16_ProducerConsumerAgree ==
    FilesAnalyzed =>
        /\ Len(metrics) = Len(perf_data)
        /\ \A k \in 1..Len(metrics) :
              /\ metrics[k].name = WrittenFor(k).name
              /\ metrics[k].cpu = WrittenFor(k).cpu
              /\ metrics[k].memory = WrittenFor(k).memory
        /\ \A k \in 1..Len(health_data) :
              /\ Evaluated(health_data[k])
              /\ Split(health_data[k])[2] = WrittenFor(k).name
              /\ StatusOf(health_data[k]) = WrittenFor(k).phase
              /\ CountOf(health_data[k]).val = WrittenFor(k).restart_count
              /\ WrittenFor(k).restart_count > 0
                    => ExtractServiceName(WrittenFor(k).name) \in problematic_services

---------------------------------------------------------------------------
(* C20: for every integer duration_minutes >= 0, 0 included, the polling   *)
(* loop of log_metrics is left at the latest one polling interval (a fetch *)
(* and the sleep) after start_time + duration_minutes: while the loop is   *)
(* running the clock is not past that time.                                *)

C20_CollectionExitsByDeadline ==
    (pc = "log_metrics" /\ ~duration_minutes.isNone)
        => \E fetch \in FetchSeconds :
              now <= 60 * duration_minutes.minutes + fetch + PollSeconds

---------------------------------------------------------------------------
(* C17: a service is flagged only by a line whose age field denotes at     *)
(* most 2 hours, in whatever unit the age is written: an age of days, such *)
(* as "3d", never causes its service to be flagged.                        *)

\* The age field of a line without its parentheses and " ago".
AgeField(line) ==
    Remove(Remove(Remove(JoinSpace(Slice(Split(line), 5, 7)), <<"(">>), <<")">>),
           <<" ","a","g","o">>)

\* The leading <D>d part of the age field and what follows it.
DaysOf(line) == TakeUnit(AgeField(line), "d")

\* The age the field denotes, with its days, in thousandths of a second.
DenotedAge(line) == 24 * 3600 * DaysOf(line).val + ParseDuration(DaysOf(line).rest).val

\* The field is a well-formed age of more than 2 hours.
DenotesMoreThanTwoHours(line) ==
    /\ DaysOf(line).ok
    /\ ParseDuration(DaysOf(line).rest).ok
    /\ DenotedAge(line) > TwoHours

C17_NoOldEventAdmitted ==
    \A s \in problematic_services :
        \E line \in Processed :
            Evaluated(line) /\ ServiceOf(line) = s /\ ~DenotesMoreThanTwoHours(line)

---------------------------------------------------------------------------
(* C18: on every sequence of health lines on which _process_health_data    *)
(* completes, analyze_pods completes without raising and returns a         *)
(* superset of the gated result; when every line has at least 7 tokens and *)
(* an age of at most 2 hours, the two results are the same set.            *)

BothVariantsCalled == call = "analyze_pods" /\ pc = "done"

AllRecent(lines) ==
    \A line \in Range(lines) :
        TokenCount(line) >= 7 /\ AgeOf(line).ok /\ AgeOf(line).val <= TwoHours

C18_VariantsDifferByGateOnly ==
    BothVariantsCalled =>
        /\ ~returned.raised
        /\ problematic_services \subseteq returned.value
        /\ AllRecent(health_data) => returned.value = problematic_services

---------------------------------------------------------------------------
(* C19: _extract_service_name is idempotent: resolving a resolved service  *)
(* name again gives the same name, also for names whose leading run is     *)
(* made of the letters a-f and hyphens.                                    *)

C19_ResolverIdempotent ==
    (call = "_extract_service_name" /\ pc = "resolved_again")
        => ~returned.raised /\ returned.value = resolved.str

---------------------------------------------------------------------------
(* C21 *)

MainLeft == main \in {"returned", "raised"}

NeitherFileExists == ~files[args.metrics_file].exists /\ ~files[args.restarts_file].exists

\* run_analysis has read the files and main is still in its try block
AnalysisRunning == main = "try" /\ call = "run_analysis"

\* C21: whichever way main leaves its try block (the analysis completed, a
\* KeyboardInterrupt, an exception that is raised again), the files at the
\* --metrics-file and --restarts-file paths do not exist afterwards, files
\* that existed before the run included; and the analysis, when it runs,
\* works on what it read from those files while they were still there.
C21_FilesRemovedOnEveryExit ==
    /\ MainLeft => NeitherFileExists
    /\ AnalysisRunning =>
          /\ files[args.metrics_file].exists
          /\ files[args.restarts_file].exists
          /\ perf_data = files[args.metrics_file].lines
          /\ health_data = files[args.restarts_file].lines

\* main returned after a completed analysis of files that existed before the
\* run and were appended to, and both are gone.
C21_Witness ==
    /\ main = "returned"
    /\ call = "run_analysis"
    /\ pc = "done"
    /\ args.restarts_file = "restarts.txt"
    /\ Len(perf_data) > 1
    /\ Head(perf_data) = MetricApi
    /\ Len(health_data) > 1
    /\ Head(health_data) = HealthRestarted
    /\ NeitherFileExists

=============================================================================
